---- MODULE Spec2Model ----
(***************************************************************************)
(* Model of the epoch and unit-conversion utilities of                     *)
(* n8n-nodes-centrifuge: validateSolution, aggregateOrders,                *)
(* calculateProRataShare, calculateFulfillmentRatio (utils/epochUtils),    *)
(* sortTranchesBySeniority (utils/poolUtils) and toBaseUnits /             *)
(* fromBaseUnits (utils/unitConverter).                                    *)
(*                                                                         *)
(* JavaScript strings are sequences of one-character strings, bigints are  *)
(* integers, and a non-integer number is an exact fraction [num, den].     *)
(***************************************************************************)
EXTENDS Integers, Sequences, FiniteSets, TLC

VARIABLES
    solution,      \* EpochSolution handed to validateSolution
    constraints,   \* SolutionConstraints handed to validateSolution
    currentState,  \* {reserve, seniorValue, juniorValue, nav}
    validation,    \* what validateSolution returned, None before the call
    orders,        \* InvestmentOrder[] of one tranche and direction
    available,     \* liquidity available to that tranche and direction
    summary,       \* what aggregateOrders returned, None before the call
    fulfillment,   \* what calculateFulfillmentRatio returned, None before
    shares,        \* calculateProRataShare of every order, None before
    tranches,      \* the tranche list handed to sortTranchesBySeniority
    sorted,        \* what sortTranchesBySeniority returned, None before
    amountStr,     \* the amount handed to toBaseUnits
    decimals,      \* the decimals handed to toBaseUnits / fromBaseUnits
    baseUnits,     \* what toBaseUnits returned, None before the call
    display,       \* what fromBaseUnits returned, None before the call
    previous,      \* amount and display of the round trip before, None if first
    sourceValue,   \* the amount handed to convertDecimals
    sourceDecimals,\* the precision the amount is expressed in
    targetDecimals,\* the precision asked for
    converted,     \* convertDecimals(value, source, target), None before
    restored,      \* the conversion back to source, None before
    quantity,      \* first argument of a ratio function: the amount that is divided
    basis,         \* the argument that divides: nav, total, price, shares, invested
    parameter,     \* third argument: decimals, or the available amount
    valuation,     \* the ratio function called and its outcome, None before
    clock,         \* Date.now(): the wall clock in milliseconds
    epochStartTimestamp,\* start of the epoch, in seconds
    minEpochDuration,\* Some(seconds), or None when the caller omits it
    calls,         \* the time-gated calls made so far, with clock reading and result
    apr,           \* the annual percentage rate handed to aprToPerSecRate
    perSecRate,    \* what aprToPerSecRate returned, None before the call
    recovered,     \* perSecRateToAPR of that rate, None before the call
    recoveredPlusRay,\* perSecRateToAPR of RAY + that rate, None before
    resource,      \* the node's resource parameter
    operation,     \* the node's operation parameter
    items,         \* the input items of execute: address and poolId parameters
    continueOnFail,\* what this.continueOnFail() answers
    credentials,   \* the optional credentials that are configured
    pc,            \* where execute stands: start, loop, finally, returned, thrown
    itemIndex,     \* the loop variable i of execute, counted from 1
    returnData,    \* the outputs pushed so far
    pending,       \* Some(error) while an error travels through finally
    output,        \* Some(returnData) once execute has returned
    substrateClient,\* None, or the SubstrateClient's api and connected fields
    clientCalls,   \* the client methods execute has called, with the item
    attempted,     \* the outcome of every item processed so far
    api,           \* whether the SubscriptionClient's api field holds an ApiPromise
    provider,      \* its provider field: none, or a WsProvider that is live or closed
    isConnected,   \* its isConnected field
    reconnectAttempts,\* its reconnectAttempts field
    subscriptions, \* the ids in its subscriptions map
    sockets,       \* the WsProviders created and not disconnected: they emit events
    closing,       \* the disconnected WsProviders whose 'disconnected' event is still to come
    waiting,       \* the handleReconnect calls that sleep in setTimeout
    creating,      \* the connect calls of handleReconnect that await ApiPromise.create
    caller,        \* what the caller awaits: idle, connect, subscribe, apiDisconnect, providerDisconnect
    lastEmitted,   \* the last event the client emitted, with reconnectAttempts at that time
    attemptDelays, \* the delays of the reconnect attempts since the last 'connected'
    closed,        \* the caller's last call was disconnect()
    eventCategory, \* the category chosen: the trigger's parameter or subscribeToCategory's argument
    eventTypes,    \* the trigger's Event Types parameter
    subscription,  \* None, or who subscribed and the eventTypes option handed to subscribe
    delivered,     \* the event the callback received last, None before any
    waitCalls,     \* the waitForEvent calls made: each one's subscribe progress, timer, promise and subscriptionId variable
    rateLimit,     \* config.rateLimit: Some(number), or None when it is not set
    subqueryEndpoint,\* whether config.subqueryEndpoint is set
    lastRequestTime,\* the CentrifugeApiClient's lastRequestTime field
    requestCount,  \* its requestCount field
    sleepers,      \* the calls that wait in checkRateLimit: when each wakes up
    issued,        \* the HTTP requests sent so far: when, and by which method
    epochOrders,   \* the orders of the epoch, of every tranche and direction
    engineResult   \* what the clearing engine reported with its solution, None before

epochVars   == <<solution, constraints, currentState, validation>>
orderVars   == <<orders, available, summary, fulfillment, shares>>
trancheVars == <<tranches, sorted>>
decimalVars == <<amountStr, decimals, baseUnits, display, previous>>
convertVars == <<sourceValue, sourceDecimals, targetDecimals, converted, restored>>
valuationVars == <<quantity, basis, parameter, valuation>>
clockVars == <<clock, epochStartTimestamp, minEpochDuration, calls>>
rateVars == <<apr, perSecRate, recovered, recoveredPlusRay>>
executeVars == <<resource, operation, items, continueOnFail, credentials, pc, itemIndex, returnData, pending, output, substrateClient, clientCalls, attempted>>
clientVars == <<api, provider, isConnected, reconnectAttempts, subscriptions, sockets, closing, waiting, creating, caller, lastEmitted, attemptDelays, closed>>
eventVars == <<eventCategory, eventTypes, subscription, delivered>>
waitVars == <<waitCalls>>
apiVars == <<rateLimit, subqueryEndpoint, lastRequestTime, requestCount, sleepers, issued>>
engineVars == <<epochOrders, engineResult>>
vars == <<solution, constraints, currentState, validation,
          orders, available, summary, fulfillment, shares,
          tranches, sorted,
          amountStr, decimals, baseUnits, display, previous,
          sourceValue, sourceDecimals, targetDecimals, converted, restored,
          quantity, basis, parameter, valuation,
          clock, epochStartTimestamp, minEpochDuration, calls,
          apr, perSecRate, recovered, recoveredPlusRay,
          resource, operation, items, continueOnFail, credentials, pc, itemIndex, returnData, pending, output, substrateClient, clientCalls, attempted,
          api, provider, isConnected, reconnectAttempts, subscriptions, sockets, closing, waiting, creating, caller, lastEmitted, attemptDelays, closed,
          eventCategory, eventTypes, subscription, delivered,
          waitCalls,
          rateLimit, subqueryEndpoint, lastRequestTime, requestCount, sleepers, issued,
          epochOrders, engineResult>>

-----------------------------------------------------------------------------
(* Bounds of the model *)

\* longest investFulfillment / redeemFulfillment list of a solution
MaxTranches == 2
\* largest seniorValue / juniorValue of a state snapshot
MaxValue == 3
\* longest order sequence
MaxOrders == 3
\* largest amount of one order
MaxAmount == 3
\* largest available liquidity
MaxAvailable == 6
\* longest amount string
MaxLen == 4
\* largest decimals
MaxDecimals == 2
\* largest magnitude handed to convertDecimals
MaxConvert == 12
\* largest magnitude of the amount handed to a ratio function
MaxQuantity == 5
\* largest ordinary divisor handed to a ratio function
MaxBasis == 4
\* seconds the wall clock runs on for
MaxSeconds == 3
\* most time-gated calls in one behaviour
MaxCalls == 3
\* largest whole annual percentage rate
MaxApr == 7
\* most input items of one run of execute
MaxItems == 2
\* most WsProviders that emit events at the same time
MaxSockets == 2
\* most handleReconnect calls asleep at the same time
MaxWaiting == 2
\* most connect calls of handleReconnect awaiting ApiPromise.create at the same time
MaxCreating == 1
\* most closed WsProviders with a pending event when disconnect() is called
MaxClosing == 1
\* most event types selected in the trigger
MaxSelected == 1
\* most waitForEvent calls on one client
MaxWaits == 2
\* most calls of request and graphqlQuery in one behaviour
MaxRequests == 4
\* largest configured rate limit
MaxRateLimit == 2
\* minutes of wall clock the API client is watched for
MaxMinutes == 2
\* most orders of one epoch handed to the clearing engine
MaxBook == 2
\* most subscriptions of one client
MaxSubscriptions == 1

-----------------------------------------------------------------------------
(* Values: optional results, strings, bigints, numbers *)

None == <<>>
Some(x) == <<x>>

Abs(x) == IF x < 0 THEN -x ELSE x

Max(a, b) == IF a >= b THEN a ELSE b

RECURSIVE GCD(_, _)
GCD(a, b) == IF b = 0 THEN a ELSE GCD(b, a % b)

\* The number n/d (d > 0), in lowest terms so that equal numbers are equal values.
Rat(n, d) ==
    LET g == GCD(Abs(n), d)
    IN  [num |-> n \div g, den |-> d \div g]

RatLess(a, b) == a.num * b.den < b.num * a.den

RECURSIVE Pow10(_)
Pow10(k) == IF k = 0 THEN 1 ELSE 10 * Pow10(k - 1)

\* bigint division truncates toward zero
BigIntDiv(a, b) ==
    IF (a >= 0) = (b > 0)
    THEN Abs(a) \div Abs(b)
    ELSE -(Abs(a) \div Abs(b))

DigitChars == <<"0", "1", "2", "3", "4", "5", "6", "7", "8", "9">>

IsDigit(c) == \E i \in 1..10 : DigitChars[i] = c

DigitValue(c) == (CHOOSE i \in 1..10 : DigitChars[i] = c) - 1

\* the value of a string of decimal digits, most significant first
RECURSIVE DigitsToInt(_)
DigitsToInt(s) ==
    IF s = <<>> THEN 0
    ELSE 10 * DigitsToInt(SubSeq(s, 1, Len(s) - 1)) + DigitValue(s[Len(s)])

\* the decimal digits of n >= 0, without leading zeros
RECURSIVE IntToDigits(_)
IntToDigits(n) ==
    IF n < 10 THEN <<DigitChars[n + 1]>>
    ELSE Append(IntToDigits(n \div 10), DigitChars[(n % 10) + 1])

\* bigint.toString()
toString(n) == IF n < 0 THEN <<"-">> \o IntToDigits(-n) ELSE IntToDigits(n)

\* BigInt(string) accepts the empty string and an optionally signed digit string;
\* anything else is a SyntaxError.
BigIntParses(s) ==
    LET body == IF s # <<>> /\ s[1] \in {"-", "+"} THEN Tail(s) ELSE s
    IN  \/ s = <<>>
        \/ body # <<>> /\ \A i \in 1..Len(body) : IsDigit(body[i])

BigInt(s) ==
    IF s = <<>> THEN 0
    ELSE IF s[1] = "-" THEN -DigitsToInt(Tail(s))
    ELSE IF s[1] = "+" THEN DigitsToInt(Tail(s))
    ELSE DigitsToInt(s)

SeqsUpTo(S, n) == UNION {[1..k -> S] : k \in 0..n}

Contains(seq, x) == \E i \in 1..Len(seq) : seq[i] = x

-----------------------------------------------------------------------------
(* validateSolution *)

ExceedsMaxReserve    == "Exceeds maximum reserve"
InsufficientReserve  == "Insufficient reserve for redemptions"
BelowMinSubordination == "Below minimum subordination ratio"

\* for (const allocation of solution.investFulfillment) projectedReserve += ...
RECURSIVE AddInvestAmounts(_, _)
AddInvestAmounts(acc, allocations) ==
    IF allocations = <<>> THEN acc
    ELSE AddInvestAmounts(acc + BigInt(Head(allocations).investAmount),
                          Tail(allocations))

\* for (const allocation of solution.redeemFulfillment) projectedReserve -= ...
RECURSIVE SubRedeemAmounts(_, _)
SubRedeemAmounts(acc, allocations) ==
    IF allocations = <<>> THEN acc
    ELSE SubRedeemAmounts(acc - BigInt(Head(allocations).redeemAmount),
                          Tail(allocations))

projectedReserve(sol, state) ==
    SubRedeemAmounts(AddInvestAmounts(state.reserve, sol.investFulfillment),
                     sol.redeemFulfillment)

reserveViolationsNoFloor(reserve, cons) ==
    IF reserve > cons.maxReserve THEN <<ExceedsMaxReserve>> ELSE <<>>

reserveViolationsInclusive(reserve, cons) ==
    (IF reserve >= cons.maxReserve THEN <<ExceedsMaxReserve>> ELSE <<>>)
    \o (IF reserve < 0 THEN <<InsufficientReserve>> ELSE <<>>)

reserveViolationsFloorInclusive(reserve, cons) ==
    (IF reserve > cons.maxReserve THEN <<ExceedsMaxReserve>> ELSE <<>>)
    \o (IF reserve <= 0 THEN <<InsufficientReserve>> ELSE <<>>)

\* the two reserve checks, in the order the violations are pushed
reserveViolations(reserve, cons) ==
    (IF reserve > cons.maxReserve THEN <<ExceedsMaxReserve>> ELSE <<>>)
    \o (IF reserve < 0 THEN <<InsufficientReserve>> ELSE <<>>)

subordinationViolationsInclusive(cons, state) ==
    LET projectedTotal == state.seniorValue + state.juniorValue
    IN  IF projectedTotal > 0
           /\ ~RatLess(cons.minSubordinationRatio,
                       Rat(BigIntDiv(state.juniorValue * 10000, projectedTotal), 10000))
        THEN <<BelowMinSubordination>>
        ELSE <<>>

\* the subordination check: Number((junior * 10000n) / total) / 10000 < min
subordinationViolations(cons, state) ==
    LET projectedTotal == state.seniorValue + state.juniorValue
    IN  IF projectedTotal > 0
           /\ RatLess(Rat(BigIntDiv(state.juniorValue * 10000, projectedTotal), 10000),
                      cons.minSubordinationRatio)
        THEN <<BelowMinSubordination>>
        ELSE <<>>

validateSolution(sol, cons, state) ==
    LET violations == reserveViolations(projectedReserve(sol, state), cons)
                      \o subordinationViolations(cons, state)
    IN  [isValid |-> Len(violations) = 0, violations |-> violations]

\* validateSolution(solution, constraints, currentState) is called and returns
ValidateSolution ==
    /\ validation' = Some(validateSolution(solution, constraints, currentState))
    /\ UNCHANGED <<solution, constraints, currentState>>
    /\ UNCHANGED <<orderVars, trancheVars, decimalVars, convertVars, valuationVars, clockVars, rateVars, executeVars, clientVars, eventVars, waitVars, apiVars, engineVars>>

-----------------------------------------------------------------------------
(* Inputs of validateSolution *)

TrancheIds == <<"senior", "mezz", "junior", "equity">>

\* TrancheAllocation of the i-th tranche with the given amounts (bigints)
Allocation(i, invest, redeem) ==
    [trancheId |-> TrancheIds[i],
     investAmount |-> toString(invest),
     investFulfillmentRatio |-> Rat(1, 1),
     redeemAmount |-> toString(redeem),
     redeemFulfillmentRatio |-> Rat(1, 1)]

\* allocation lists: one <<investAmount, redeemAmount>> pair per tranche
AllocationLists(pairs) ==
    {[i \in 1..Len(p) |-> Allocation(i, p[i][1], p[i][2])] :
        p \in SeqsUpTo(pairs, MaxTranches)}

Solutions(investPairs, redeemPairs) ==
    {[investFulfillment |-> inv, redeemFulfillment |-> red,
      isFeasible |-> TRUE, score |-> 1] :
        inv \in AllocationLists(investPairs), red \in AllocationLists(redeemPairs)}

IdleEpoch ==
    /\ solution = [investFulfillment |-> <<>>, redeemFulfillment |-> <<>>,
                   isFeasible |-> TRUE, score |-> 1]
    /\ constraints = [maxReserve |-> 0, minSubordinationRatio |-> Rat(0, 1),
                      maxNavDecrease |-> Rat(0, 1)]
    /\ currentState = [reserve |-> 0, seniorValue |-> 0, juniorValue |-> 0, nav |-> 0]
    /\ validation = None

IdleOrders ==
    /\ orders = <<>>
    /\ available = 0
    /\ summary = None
    /\ fulfillment = None
    /\ shares = None

IdleTranches ==
    /\ tranches = <<>>
    /\ sorted = None

IdleDecimal ==
    /\ amountStr = <<>>
    /\ decimals = 0
    /\ baseUnits = None
    /\ display = None
    /\ previous = None

IdleConvert ==
    /\ sourceValue = 0
    /\ sourceDecimals = 0
    /\ targetDecimals = 0
    /\ converted = None
    /\ restored = None

IdleValuation ==
    /\ quantity = 0
    /\ basis = 0
    /\ parameter = 0
    /\ valuation = None

IdleClock ==
    /\ clock = 0
    /\ epochStartTimestamp = 0
    /\ minEpochDuration = None
    /\ calls = <<>>

IdleRate ==
    /\ apr = <<>>
    /\ perSecRate = None
    /\ recovered = None
    /\ recoveredPlusRay = None

IdleExecute ==
    /\ resource = ""
    /\ operation = ""
    /\ items = <<>>
    /\ continueOnFail = FALSE
    /\ credentials = {}
    /\ pc = "idle"
    /\ itemIndex = 0
    /\ returnData = <<>>
    /\ pending = None
    /\ output = None
    /\ substrateClient = None
    /\ clientCalls = <<>>
    /\ attempted = <<>>

IdleClient ==
    /\ api = FALSE
    /\ provider = "none"
    /\ isConnected = FALSE
    /\ reconnectAttempts = 0
    /\ subscriptions = {}
    /\ sockets = 0
    /\ closing = 0
    /\ waiting = 0
    /\ creating = 0
    /\ caller = "none"
    /\ lastEmitted = None
    /\ attemptDelays = <<>>
    /\ closed = FALSE

IdleEvents ==
    /\ eventCategory = ""
    /\ eventTypes = <<>>
    /\ subscription = None
    /\ delivered = None

IdleWait ==
    /\ waitCalls = <<>>

IdleApi ==
    /\ rateLimit = None
    /\ subqueryEndpoint = FALSE
    /\ lastRequestTime = 0
    /\ requestCount = 0
    /\ sleepers = <<>>
    /\ issued = <<>>

IdleEngine ==
    /\ epochOrders = <<>>
    /\ engineResult = None

\* Solutions against the reserve bounds: reserve 0 or 1000, maxReserve 1200,
\* amounts 0, 200 and 500 per allocation.
InitSolution ==
    /\ solution \in Solutions({0, 200, 500} \X {0, 500}, {0, 500} \X {0, 200, 500})
    /\ \E r \in {0, 1000} :
         currentState = [reserve |-> r, seniorValue |-> 800, juniorValue |-> 200,
                         nav |-> 1000 + r]
    /\ \E m \in {Rat(1, 10), Rat(1, 4)} :
         constraints = [maxReserve |-> 1200, minSubordinationRatio |-> m,
                        maxNavDecrease |-> Rat(10, 1)]
    /\ validation = None
    /\ IdleOrders /\ IdleTranches /\ IdleDecimal /\ IdleConvert /\ IdleValuation /\ IdleClock /\ IdleRate /\ IdleExecute /\ IdleClient /\ IdleEvents /\ IdleWait /\ IdleApi /\ IdleEngine

NextSolution == ValidateSolution

SpecSolution == InitSolution /\ [][NextSolution]_vars

\* Snapshots against the subordination bound: senior and junior values up to
\* MaxValue, minimum ratios on and off the 4-decimal grid.
MinRatios == {Rat(m, 100000) : m \in {0, 25000, 33330, 33333, 33334, 50000, 100000}}

InitSubordination ==
    /\ solution \in Solutions({0, 200} \X {0}, {0} \X {0})
    /\ \E s \in 0..MaxValue, j \in 0..MaxValue :
         currentState = [reserve |-> 1000, seniorValue |-> s, juniorValue |-> j,
                         nav |-> 1000 + s + j]
    /\ \E m \in MinRatios :
         constraints = [maxReserve |-> 1200, minSubordinationRatio |-> m,
                        maxNavDecrease |-> Rat(10, 1)]
    /\ validation = None
    /\ IdleOrders /\ IdleTranches /\ IdleDecimal /\ IdleConvert /\ IdleValuation /\ IdleClock /\ IdleRate /\ IdleExecute /\ IdleClient /\ IdleEvents /\ IdleWait /\ IdleApi /\ IdleEngine

NextSubordination == ValidateSolution

SpecSubordination == InitSubordination /\ [][NextSubordination]_vars

-----------------------------------------------------------------------------
(* aggregateOrders, calculateFulfillmentRatio, calculateProRataShare *)

Fulfilled == "Fulfilled"

OrderStatus == {"Pending", "PartiallyFulfilled", Fulfilled, "Cancelled"}

createEmptyOrderSummary ==
    [totalAmount |-> <<"0">>, orderCount |-> 0, fulfillmentRatio |-> Rat(0, 1)]

\* for (const order of orders) { totalAmount += BigInt(order.amount); ... }
RECURSIVE aggregateLoop(_, _, _)
aggregateLoop(os, totalAmount, fulfilledCount) ==
    IF os = <<>> THEN [totalAmount |-> totalAmount, fulfilledCount |-> fulfilledCount]
    ELSE aggregateLoop(Tail(os),
                       totalAmount + BigInt(Head(os).amount),
                       IF Head(os).status = Fulfilled
                       THEN fulfilledCount + 1 ELSE fulfilledCount)

aggregateOrdersPartialCounts(os) ==
    IF Len(os) = 0 THEN createEmptyOrderSummary
    ELSE LET acc == aggregateLoop(os, 0, 0)
             done == Cardinality({i \in 1..Len(os) :
                        os[i].status \in {Fulfilled, "PartiallyFulfilled"}})
         IN  [totalAmount |-> toString(acc.totalAmount),
              orderCount |-> Len(os),
              fulfillmentRatio |-> Rat(done, Len(os))]

aggregateOrders(os) ==
    IF Len(os) = 0 THEN createEmptyOrderSummary
    ELSE LET acc == aggregateLoop(os, 0, 0)
         IN  [totalAmount |-> toString(acc.totalAmount),
              orderCount |-> Len(os),
              fulfillmentRatio |-> IF Len(os) > 0
                                   THEN Rat(acc.fulfilledCount, Len(os))
                                   ELSE Rat(0, 1)]

calculateFulfillmentRatioUncapped(totalOrders, availableLiquidity) ==
    LET ords == BigInt(totalOrders)
        liquidity == BigInt(availableLiquidity)
    IN  IF ords = 0 THEN Rat(1, 1)
        ELSE Rat(BigIntDiv(liquidity * 10000, ords), 10000)

\* totalOrders and availableLiquidity after their .toString()
calculateFulfillmentRatio(totalOrders, availableLiquidity) ==
    LET ords == BigInt(totalOrders)
        liquidity == BigInt(availableLiquidity)
    IN  IF ords = 0 THEN Rat(1, 1)
        ELSE IF liquidity >= ords THEN Rat(1, 1)
        ELSE Rat(BigIntDiv(liquidity * 10000, ords), 10000)

calculateProRataShareDivideFirst(orderAmount, totalOrders, availableAmount) ==
    LET order == BigInt(orderAmount)
        total == BigInt(totalOrders)
        avail == BigInt(availableAmount)
    IN  IF total = 0 THEN 0 ELSE order * BigIntDiv(avail, total)

calculateProRataShareRoundUp(orderAmount, totalOrders, availableAmount) ==
    LET order == BigInt(orderAmount)
        total == BigInt(totalOrders)
        avail == BigInt(availableAmount)
    IN  IF total = 0 THEN 0 ELSE BigIntDiv(order * avail + total - 1, total)

\* orderAmount, totalOrders and availableAmount after their .toString()
calculateProRataShare(orderAmount, totalOrders, availableAmount) ==
    LET order == BigInt(orderAmount)
        total == BigInt(totalOrders)
        avail == BigInt(availableAmount)
    IN  IF total = 0 THEN 0 ELSE BigIntDiv(order * avail, total)

\* aggregateOrders(orders) is called and returns
AggregateOrders ==
    /\ summary' = Some(aggregateOrders(orders))
    /\ UNCHANGED <<orders, available, fulfillment, shares>>
    /\ UNCHANGED <<epochVars, trancheVars, decimalVars, convertVars, valuationVars, clockVars, rateVars, executeVars, clientVars, eventVars, waitVars, apiVars, engineVars>>

\* calculateFulfillmentRatio(summary.totalAmount, available) is called
CalculateFulfillmentRatio ==
    /\ summary # None
    /\ fulfillment' = Some(calculateFulfillmentRatio(summary[1].totalAmount,
                                                     toString(available)))
    /\ UNCHANGED <<orders, available, summary, shares>>
    /\ UNCHANGED <<epochVars, trancheVars, decimalVars, convertVars, valuationVars, clockVars, rateVars, executeVars, clientVars, eventVars, waitVars, apiVars, engineVars>>

\* calculateProRataShare(order.amount, summary.totalAmount, available) is
\* called for every order of the sequence
CalculateProRataShares ==
    /\ summary # None
    /\ shares' = Some([i \in 1..Len(orders) |->
                         calculateProRataShare(orders[i].amount,
                                               summary[1].totalAmount,
                                               toString(available))])
    /\ UNCHANGED <<orders, available, summary, fulfillment>>
    /\ UNCHANGED <<epochVars, trancheVars, decimalVars, convertVars, valuationVars, clockVars, rateVars, executeVars, clientVars, eventVars, waitVars, apiVars, engineVars>>

\* the i-th order of the epoch, on the senior tranche
Order(i, amount, status) ==
    [orderId |-> i,
     investorAddress |-> "investor",
     poolId |-> "pool",
     trancheId |-> TrancheIds[1],
     orderType |-> "Invest",
     amount |-> toString(amount),
     epochId |-> 1,
     timestamp |-> i,
     status |-> status]

OrderLists(amounts, statuses) ==
    {[i \in 1..Len(p) |-> Order(i, p[i][1], p[i][2])] :
        p \in SeqsUpTo(amounts \X statuses, MaxOrders)}

\* Order sequences of every status, aggregated.
InitOrders ==
    /\ orders \in OrderLists(0..(MaxAmount - 1), OrderStatus)
    /\ available = 0
    /\ summary = None
    /\ fulfillment = None
    /\ shares = None
    /\ IdleEpoch /\ IdleTranches /\ IdleDecimal /\ IdleConvert /\ IdleValuation /\ IdleClock /\ IdleRate /\ IdleExecute /\ IdleClient /\ IdleEvents /\ IdleWait /\ IdleApi /\ IdleEngine

NextOrders == AggregateOrders

SpecOrders == InitOrders /\ [][NextOrders]_vars

\* Pending orders of one tranche and direction, aggregated and then allocated
\* against the available liquidity.
InitAllocation ==
    /\ orders \in OrderLists(0..MaxAmount, {"Pending"})
    /\ available \in 0..MaxAvailable
    /\ summary = None
    /\ fulfillment = None
    /\ shares = None
    /\ IdleEpoch /\ IdleTranches /\ IdleDecimal /\ IdleConvert /\ IdleValuation /\ IdleClock /\ IdleRate /\ IdleExecute /\ IdleClient /\ IdleEvents /\ IdleWait /\ IdleApi /\ IdleEngine

NextAllocation ==
    \/ AggregateOrders
    \/ CalculateFulfillmentRatio
    \/ CalculateProRataShares

SpecAllocation == InitAllocation /\ [][NextAllocation]_vars

-----------------------------------------------------------------------------
(* sortTranchesBySeniority *)

\* t placed behind every tranche of s that is not junior to it: the comparator
\* a.seniority - b.seniority under a stable sort
RECURSIVE InsertBySeniority(_, _)
InsertBySeniority(t, s) ==
    IF s = <<>> THEN <<t>>
    ELSE IF t.seniority - Head(s).seniority < 0 THEN <<t>> \o s
    ELSE <<Head(s)>> \o InsertBySeniority(t, Tail(s))

RECURSIVE SortBySeniority(_, _)
SortBySeniority(done, rest) ==
    IF rest = <<>> THEN done
    ELSE SortBySeniority(InsertBySeniority(Head(rest), done), Tail(rest))

sortTranchesBySeniorityInPlace(ts) ==
    [returned |-> SortBySeniority(<<>>, ts), tranches |-> SortBySeniority(<<>>, ts)]

\* [...tranches].sort(...): the copy is sorted and returned, and the caller's
\* array is as it was
sortTranchesBySeniority(ts) ==
    [returned |-> SortBySeniority(<<>>, ts), tranches |-> ts]

\* sortTranchesBySeniority(tranches) is called and returns
SortTranchesBySeniority ==
    /\ sorted' = Some(sortTranchesBySeniority(tranches).returned)
    /\ tranches' = sortTranchesBySeniority(tranches).tranches
    /\ UNCHANGED <<epochVars, orderVars, decimalVars, convertVars, valuationVars, clockVars, rateVars, executeVars, clientVars, eventVars, waitVars, apiVars, engineVars>>

\* tranche lists in any order of seniority
TrancheLists ==
    {[i \in 1..Len(p) |-> [id |-> TrancheIds[i], seniority |-> p[i]]] :
        p \in SeqsUpTo(0..(MaxTranches - 1), MaxTranches)}

\* Solutions, snapshots, order sequences and tranche lists handed to the core
\* in any order of calls.
InitCore ==
    /\ solution \in Solutions({<<500, 0>>}, {<<0, 500>>})
    /\ \E r \in {0, 1000} :
         currentState = [reserve |-> r, seniorValue |-> 800, juniorValue |-> 200,
                         nav |-> 1000 + r]
    /\ constraints = [maxReserve |-> 1200, minSubordinationRatio |-> Rat(1, 10),
                      maxNavDecrease |-> Rat(10, 1)]
    /\ validation = None
    /\ orders \in OrderLists({2}, {"Pending", Fulfilled})
    /\ available = 0
    /\ summary = None
    /\ fulfillment = None
    /\ shares = None
    /\ tranches \in TrancheLists
    /\ sorted = None
    /\ IdleDecimal /\ IdleConvert /\ IdleValuation /\ IdleClock /\ IdleRate /\ IdleExecute /\ IdleClient /\ IdleEvents /\ IdleWait /\ IdleApi /\ IdleEngine

NextCore ==
    \/ ValidateSolution
    \/ AggregateOrders
    \/ SortTranchesBySeniority

SpecCore == InitCore /\ [][NextCore]_vars

-----------------------------------------------------------------------------
(* toBaseUnits, fromBaseUnits *)

\* string.split(sep): the pieces between the separators
RECURSIVE Split(_, _)
Split(s, sep) ==
    IF \A i \in 1..Len(s) : s[i] # sep THEN <<s>>
    ELSE LET k == CHOOSE i \in 1..Len(s) :
                     s[i] = sep /\ \A j \in 1..(i - 1) : s[j] # sep
         IN  <<SubSeq(s, 1, k - 1)>> \o Split(SubSeq(s, k + 1, Len(s)), sep)

\* string.padEnd(n, c)
RECURSIVE padEnd(_, _, _)
padEnd(s, n, c) == IF Len(s) >= n THEN s ELSE padEnd(Append(s, c), n, c)

\* string.padStart(n, c)
RECURSIVE padStart(_, _, _)
padStart(s, n, c) == IF Len(s) >= n THEN s ELSE padStart(<<c>> \o s, n, c)

\* string.slice(0, n)
sliceTo(s, n) == SubSeq(s, 1, IF n < Len(s) THEN n ELSE Len(s))

\* string.replace(/^0+/, '')
RECURSIVE stripLeadingZeros(_)
stripLeadingZeros(s) ==
    IF s # <<>> /\ Head(s) = "0" THEN stripLeadingZeros(Tail(s)) ELSE s

\* string.replace(/0+$/, '')
RECURSIVE stripTrailingZeros(_)
stripTrailingZeros(s) ==
    IF s # <<>> /\ s[Len(s)] = "0"
    THEN stripTrailingZeros(SubSeq(s, 1, Len(s) - 1)) ELSE s

\* bigint % bigint: the sign of the dividend
BigIntRem(a, b) == a - b * BigIntDiv(a, b)

toBaseUnitsNoSlice(amount, d) ==
    LET parts == Split(amount, ".")
        whole == parts[1]
        fraction == IF Len(parts) >= 2 THEN parts[2] ELSE <<>>
        combined == whole \o padEnd(fraction, d, "0")
        digits == IF stripLeadingZeros(combined) = <<>> THEN <<"0">>
                  ELSE stripLeadingZeros(combined)
    IN  IF BigIntParses(digits)
        THEN [threw |-> FALSE, value |-> BigInt(digits)]
        ELSE [threw |-> TRUE, value |-> 0]

\* toBaseUnits of a string without exponent (no 'e' or 'E' in it): the value,
\* or threw when BigInt rejects the combined digits
toBaseUnits(amount, d) ==
    LET parts == Split(amount, ".")
        whole == parts[1]
        fraction == IF Len(parts) >= 2 THEN parts[2] ELSE <<>>
        paddedFraction == sliceTo(padEnd(fraction, d, "0"), d)
        combined == whole \o paddedFraction
        digits == IF stripLeadingZeros(combined) = <<>> THEN <<"0">>
                  ELSE stripLeadingZeros(combined)
    IN  IF BigIntParses(digits)
        THEN [threw |-> FALSE, value |-> BigInt(digits)]
        ELSE [threw |-> TRUE, value |-> 0]

fromBaseUnitsNoPadStart(value, d) ==
    LET valueBigInt == BigInt(toString(value))
        divisor == Pow10(d)
        whole == BigIntDiv(valueBigInt, divisor)
        fraction == BigIntRem(valueBigInt, divisor)
    IN  IF fraction = 0 THEN toString(whole)
        ELSE toString(whole) \o <<".">> \o stripTrailingZeros(toString(fraction))

fromBaseUnits(value, d) ==
    LET valueBigInt == BigInt(toString(value))
        divisor == Pow10(d)
        whole == BigIntDiv(valueBigInt, divisor)
        fraction == BigIntRem(valueBigInt, divisor)
        fractionStr == padStart(toString(fraction), d, "0")
        trimmedFraction == stripTrailingZeros(fractionStr)
    IN  IF fraction = 0 THEN toString(whole)
        ELSE toString(whole) \o <<".">> \o trimmedFraction

\* toBaseUnits(amountStr, decimals) is called and returns or throws
ToBaseUnits ==
    /\ baseUnits' = Some(toBaseUnits(amountStr, decimals))
    /\ UNCHANGED <<amountStr, decimals, display, previous>>
    /\ UNCHANGED <<epochVars, orderVars, trancheVars, convertVars, valuationVars, clockVars, rateVars, executeVars, clientVars, eventVars, waitVars, apiVars, engineVars>>

\* fromBaseUnits(baseUnits, decimals) is called on the value toBaseUnits returned
FromBaseUnits ==
    /\ baseUnits # None
    /\ ~baseUnits[1].threw
    /\ display' = Some(fromBaseUnits(baseUnits[1].value, decimals))
    /\ UNCHANGED <<amountStr, decimals, baseUnits, previous>>
    /\ UNCHANGED <<epochVars, orderVars, trancheVars, convertVars, valuationVars, clockVars, rateVars, executeVars, clientVars, eventVars, waitVars, apiVars, engineVars>>

\* the caller hands the displayed string back for a second round trip
RoundTripAgain ==
    /\ display # None
    /\ previous = None
    /\ previous' = Some([amount |-> amountStr, display |-> display[1]])
    /\ amountStr' = display[1]
    /\ baseUnits' = None
    /\ display' = None
    /\ UNCHANGED decimals
    /\ UNCHANGED <<epochVars, orderVars, trancheVars, convertVars, valuationVars, clockVars, rateVars, executeVars, clientVars, eventVars, waitVars, apiVars, engineVars>>

AmountChars == {"0", "1", "5", "."}

\* Amount strings of digits and points, at every precision up to MaxDecimals.
InitDecimal ==
    /\ amountStr \in SeqsUpTo(AmountChars, MaxLen)
    /\ decimals \in 0..MaxDecimals
    /\ baseUnits = None
    /\ display = None
    /\ previous = None
    /\ IdleEpoch /\ IdleOrders /\ IdleTranches /\ IdleConvert /\ IdleValuation /\ IdleClock /\ IdleRate /\ IdleExecute /\ IdleClient /\ IdleEvents /\ IdleWait /\ IdleApi /\ IdleEngine

NextDecimal ==
    \/ ToBaseUnits
    \/ FromBaseUnits
    \/ RoundTripAgain

SpecDecimal == InitDecimal /\ [][NextDecimal]_vars

\* Amount strings that may hold a character that is no part of a number, at
\* every precision up to MaxDecimals.
InitMalformed ==
    /\ amountStr \in SeqsUpTo({"1", "5", ".", "x"}, MaxLen)
    /\ decimals \in 0..MaxDecimals
    /\ baseUnits = None
    /\ display = None
    /\ previous = None
    /\ IdleEpoch /\ IdleOrders /\ IdleTranches /\ IdleConvert /\ IdleValuation /\ IdleClock /\ IdleRate /\ IdleExecute /\ IdleClient /\ IdleEvents /\ IdleWait /\ IdleApi /\ IdleEngine

NextMalformed == ToBaseUnits

SpecMalformed == InitMalformed /\ [][NextMalformed]_vars

-----------------------------------------------------------------------------
(* convertDecimals *)

\* the scale-up mutated to multiply by ten to the target precision
convertDecimalsScaleByTarget(val, source, target) ==
    IF source = target THEN val
    ELSE IF target > source THEN val * Pow10(target)
    ELSE BigIntDiv(val, Pow10(source - target))

\* convertDecimals(value, sourceDecimals, targetDecimals): the bigint value
\* re-expressed at another precision; scaling down divides as bigints do.
convertDecimals(val, source, target) ==
    IF source = target THEN val
    ELSE IF target > source THEN val * Pow10(target - source)
    ELSE BigIntDiv(val, Pow10(source - target))

ConvertDecimals ==
    /\ converted = None
    /\ converted' = Some(convertDecimals(sourceValue, sourceDecimals, targetDecimals))
    /\ UNCHANGED <<sourceValue, sourceDecimals, targetDecimals, restored>>
    /\ UNCHANGED <<epochVars, orderVars, trancheVars, decimalVars, valuationVars, clockVars, rateVars, executeVars, clientVars, eventVars, waitVars, apiVars, engineVars>>

\* the caller converts the result back to the precision it came from
ConvertBack ==
    /\ converted # None
    /\ restored = None
    /\ restored' = Some(convertDecimals(converted[1], targetDecimals, sourceDecimals))
    /\ UNCHANGED <<sourceValue, sourceDecimals, targetDecimals, converted>>
    /\ UNCHANGED <<epochVars, orderVars, trancheVars, decimalVars, valuationVars, clockVars, rateVars, executeVars, clientVars, eventVars, waitVars, apiVars, engineVars>>

\* Amounts of either sign around the powers of ten, between any two precisions.
InitConvert ==
    /\ sourceValue \in -MaxConvert..MaxConvert
    /\ sourceDecimals \in 0..MaxDecimals
    /\ targetDecimals \in 0..MaxDecimals
    /\ converted = None
    /\ restored = None
    /\ IdleEpoch /\ IdleOrders /\ IdleTranches /\ IdleDecimal /\ IdleValuation /\ IdleClock /\ IdleRate /\ IdleExecute /\ IdleClient /\ IdleEvents /\ IdleWait /\ IdleApi /\ IdleEngine

NextConvert ==
    \/ ConvertDecimals
    \/ ConvertBack

SpecConvert == InitConvert /\ [][NextConvert]_vars

-----------------------------------------------------------------------------
(* Ratio functions: calculateReserveRatio, calculateSubordination,         *)
(* calculateReturn (utils/poolUtils), calculateInvestTokens                *)
(* (utils/epochUtils), calculateNavPerShare (utils/unitConverter)          *)

\* a call that returned v, and a call that threw (bigint division by zero
\* is a RangeError)
Returned(v) == [threw |-> FALSE, value |-> v]
Thrown == [threw |-> TRUE, value |-> 0]

calculateReserveRatioUnguarded(reserve, nav) ==
    LET reserveBigInt == BigInt(reserve)
        navBigInt == BigInt(nav)
    IN  IF navBigInt = 0 THEN Thrown
        ELSE Returned(Rat(BigIntDiv(reserveBigInt * 10000, navBigInt), 10000))

\* the quotient rounded to the nearest 1/10000 instead of truncated
calculateReserveRatioNearest(reserve, nav) ==
    LET reserveBigInt == BigInt(reserve)
        navBigInt == BigInt(nav)
    IN  IF navBigInt = 0 THEN Returned(Rat(0, 1))
        ELSE Returned(Rat(BigIntDiv(2 * reserveBigInt * 10000 + navBigInt,
                                    2 * navBigInt), 10000))

\* reserve and nav after their .toString()
calculateReserveRatio(reserve, nav) ==
    LET reserveBigInt == BigInt(reserve)
        navBigInt == BigInt(nav)
    IN  IF navBigInt = 0 THEN Returned(Rat(0, 1))
        ELSE Returned(Rat(BigIntDiv(reserveBigInt * 10000, navBigInt), 10000))

calculateSubordination(juniorValue, totalValue) ==
    LET junior == BigInt(juniorValue)
        total == BigInt(totalValue)
    IN  IF total = 0 THEN Returned(Rat(0, 1))
        ELSE Returned(Rat(BigIntDiv(junior * 10000, total), 10000))

calculateReturn(currentValue, investedValue) ==
    LET current == BigInt(currentValue)
        invested == BigInt(investedValue)
        absoluteReturn == current - invested
    IN  IF invested = 0
        THEN Returned([absoluteReturn |-> absoluteReturn,
                       percentageReturn |-> Rat(0, 1)])
        ELSE Returned([absoluteReturn |-> absoluteReturn,
                       percentageReturn |->
                           Rat(BigIntDiv(absoluteReturn * 10000, invested), 100)])

\* decimals is a precision, 0 or more, so BigInt(10) ** BigInt(decimals) exists
calculateInvestTokens(investAmount, tokenPrice, d) ==
    LET amount == BigInt(investAmount)
        price == BigInt(tokenPrice)
        multiplier == Pow10(d)
    IN  IF price = 0 THEN Returned(0)
        ELSE Returned(BigIntDiv(amount * multiplier, price))

calculateNavPerShare(totalNav, totalShares, d) ==
    LET nav == BigInt(totalNav)
        shareCount == BigInt(totalShares)
        multiplier == Pow10(d)
    IN  IF shareCount = 0 THEN Returned(<<"0">>)
        ELSE Returned(fromBaseUnits(BigIntDiv(nav * multiplier, shareCount), d))

CalculateReserveRatio ==
    /\ valuation' = Some([op |-> "calculateReserveRatio",
                          outcome |-> calculateReserveRatio(toString(quantity),
                                                            toString(basis))])
    /\ UNCHANGED <<quantity, basis, parameter>>
    /\ UNCHANGED <<epochVars, orderVars, trancheVars, decimalVars, convertVars, clockVars, rateVars, executeVars, clientVars, eventVars, waitVars, apiVars, engineVars>>

CalculateSubordination ==
    /\ valuation' = Some([op |-> "calculateSubordination",
                          outcome |-> calculateSubordination(toString(quantity),
                                                             toString(basis))])
    /\ UNCHANGED <<quantity, basis, parameter>>
    /\ UNCHANGED <<epochVars, orderVars, trancheVars, decimalVars, convertVars, clockVars, rateVars, executeVars, clientVars, eventVars, waitVars, apiVars, engineVars>>

CalculateReturn ==
    /\ valuation' = Some([op |-> "calculateReturn",
                          outcome |-> calculateReturn(toString(quantity),
                                                      toString(basis))])
    /\ UNCHANGED <<quantity, basis, parameter>>
    /\ UNCHANGED <<epochVars, orderVars, trancheVars, decimalVars, convertVars, clockVars, rateVars, executeVars, clientVars, eventVars, waitVars, apiVars, engineVars>>

CalculateInvestTokens ==
    /\ valuation' = Some([op |-> "calculateInvestTokens",
                          outcome |-> calculateInvestTokens(toString(quantity),
                                                            toString(basis),
                                                            parameter)])
    /\ UNCHANGED <<quantity, basis, parameter>>
    /\ UNCHANGED <<epochVars, orderVars, trancheVars, decimalVars, convertVars, clockVars, rateVars, executeVars, clientVars, eventVars, waitVars, apiVars, engineVars>>

CalculateNavPerShare ==
    /\ valuation' = Some([op |-> "calculateNavPerShare",
                          outcome |-> calculateNavPerShare(toString(quantity),
                                                           toString(basis),
                                                           parameter)])
    /\ UNCHANGED <<quantity, basis, parameter>>
    /\ UNCHANGED <<epochVars, orderVars, trancheVars, decimalVars, convertVars, clockVars, rateVars, executeVars, clientVars, eventVars, waitVars, apiVars, engineVars>>

\* calculateProRataShare(orderAmount, totalOrders, availableAmount) on its own,
\* whatever the total is
CalculateProRataShare ==
    /\ valuation' = Some([op |-> "calculateProRataShare",
                          outcome |-> Returned(calculateProRataShare(
                                          toString(quantity), toString(basis),
                                          toString(parameter)))])
    /\ UNCHANGED <<quantity, basis, parameter>>
    /\ UNCHANGED <<epochVars, orderVars, trancheVars, decimalVars, convertVars, clockVars, rateVars, executeVars, clientVars, eventVars, waitVars, apiVars, engineVars>>

\* Amounts of either sign, divisors from zero up, and the reserve 100 of a
\* pool of nav 1000.
InitValuation ==
    /\ quantity \in (-MaxQuantity..MaxQuantity) \cup {100}
    /\ basis \in (0..MaxBasis) \cup {1000}
    /\ parameter \in 0..MaxDecimals
    /\ valuation = None
    /\ IdleEpoch /\ IdleOrders /\ IdleTranches /\ IdleDecimal /\ IdleConvert /\ IdleClock /\ IdleRate /\ IdleExecute /\ IdleClient /\ IdleEvents /\ IdleWait /\ IdleApi /\ IdleEngine

NextValuation ==
    \/ CalculateReserveRatio
    \/ CalculateSubordination
    \/ CalculateReturn
    \/ CalculateInvestTokens
    \/ CalculateNavPerShare
    \/ CalculateProRataShare

SpecValuation == InitValuation /\ [][NextValuation]_vars

-----------------------------------------------------------------------------
(* aggregateOrders on orders as they arrive *)

\* the tranches of the pool the orders are placed on
PoolTranches == {TrancheIds[i] : i \in 1..MaxTranches}

\* the i-th order as it arrives: any tranche id, any signed amount
ArrivingOrder(i, trancheId, amount, status) ==
    [Order(i, amount, status) EXCEPT !.trancheId = trancheId]

ArrivingOrderLists(trancheIds, amounts, statuses) ==
    {[i \in 1..Len(p) |-> ArrivingOrder(i, p[i][1], p[i][2], p[i][3])] :
        p \in SeqsUpTo(trancheIds \X amounts \X statuses, MaxOrders)}

\* Order sequences that may hold a negative amount or a tranche id the pool
\* does not have, aggregated.
InitIntake ==
    /\ orders \in ArrivingOrderLists({TrancheIds[1], "unknown"},
                                     {-MaxAmount, 0, MaxAmount},
                                     {"Pending", Fulfilled})
    /\ available = 0
    /\ summary = None
    /\ fulfillment = None
    /\ shares = None
    /\ IdleEpoch /\ IdleTranches /\ IdleDecimal /\ IdleConvert /\ IdleValuation /\ IdleClock /\ IdleRate /\ IdleExecute /\ IdleClient /\ IdleEvents /\ IdleWait /\ IdleApi /\ IdleEngine

NextIntake == AggregateOrders

SpecIntake == InitIntake /\ [][NextIntake]_vars

-----------------------------------------------------------------------------
(* validateSolution on constraints as they arrive *)

\* Constraints that may hold a minimum subordination ratio above 1 or a
\* negative maximum reserve.
InitConstraints ==
    /\ solution \in Solutions({0, 200} \X {0}, {0} \X {0, 200})
    /\ \E r \in {0, 1000} :
         currentState = [reserve |-> r, seniorValue |-> 800, juniorValue |-> 200,
                         nav |-> 1000 + r]
    /\ \E maxReserve \in {-1, 1200}, m \in {Rat(1, 4), Rat(3, 2)} :
         constraints = [maxReserve |-> maxReserve, minSubordinationRatio |-> m,
                        maxNavDecrease |-> Rat(10, 1)]
    /\ validation = None
    /\ IdleOrders /\ IdleTranches /\ IdleDecimal /\ IdleConvert /\ IdleValuation /\ IdleClock /\ IdleRate /\ IdleExecute /\ IdleClient /\ IdleEvents /\ IdleWait /\ IdleApi /\ IdleEngine

NextConstraints == ValidateSolution

SpecConstraints == InitConstraints /\ [][NextConstraints]_vars

-----------------------------------------------------------------------------
(* Time gate: canCloseEpoch, getEpochCloseCountdown (utils/epochUtils),     *)
(* timeUntilEpochClose, formatDuration (utils/poolUtils)                    *)

EPOCH_DEFAULTS ==
    [minEpochTime |-> 24 * 60 * 60, challengeTime |-> 60 * 60, maxSolutions |-> 100]

\* a parameter with a default value: the argument, or the default when omitted
OrDefault(arg, default) == IF arg = None THEN default ELSE arg[1]

\* Math.floor(Date.now() / 1000)
NowSeconds == clock \div 1000

RECURSIVE Join(_, _)
Join(parts, sep) ==
    IF parts = <<>> THEN <<>>
    ELSE IF Len(parts) = 1 THEN parts[1]
    ELSE parts[1] \o sep \o Join(Tail(parts), sep)

formatDuration(seconds) ==
    IF seconds <= 0 THEN <<"0", "s">>
    ELSE LET days == seconds \div 86400
             hours == (seconds % 86400) \div 3600
             minutes == (seconds % 3600) \div 60
             secs == seconds % 60
             parts == (IF days > 0 THEN <<toString(days) \o <<"d">>>> ELSE <<>>)
                      \o (IF hours > 0 THEN <<toString(hours) \o <<"h">>>> ELSE <<>>)
                      \o (IF minutes > 0 THEN <<toString(minutes) \o <<"m">>>> ELSE <<>>)
                      \o (IF secs > 0 /\ days = 0
                          THEN <<toString(secs) \o <<"s">>>> ELSE <<>>)
         IN  IF Join(parts, <<" ">>) = <<>> THEN <<"0", "s">>
             ELSE Join(parts, <<" ">>)

\* the clock rounded up to the second instead of down
canCloseEpochCeil(start, duration) ==
    LET now == (clock + 999) \div 1000
    IN  now >= start + OrDefault(duration, EPOCH_DEFAULTS.minEpochTime)

canCloseEpoch(start, duration) ==
    LET now == NowSeconds
    IN  now >= start + OrDefault(duration, EPOCH_DEFAULTS.minEpochTime)

\* the countdown without its Math.max(0, ...)
getEpochCloseCountdownUnclamped(start, duration) ==
    LET now == NowSeconds
        closeTime == start + OrDefault(duration, EPOCH_DEFAULTS.minEpochTime)
    IN  closeTime - now

getEpochCloseCountdown(start, duration) ==
    LET now == NowSeconds
        closeTime == start + OrDefault(duration, EPOCH_DEFAULTS.minEpochTime)
    IN  Max(0, closeTime - now)

timeUntilEpochClose(start, duration) ==
    LET now == NowSeconds
        epochEndTime == start + OrDefault(duration, EPOCH_DEFAULTS.minEpochTime)
        remainingSeconds == Max(0, epochEndTime - now)
    IN  [canClose |-> remainingSeconds = 0,
         remainingSeconds |-> remainingSeconds,
         remainingFormatted |-> formatDuration(remainingSeconds)]

\* half a second passes
Tick ==
    /\ clock + 500 <= (EPOCH_DEFAULTS.minEpochTime + MaxSeconds) * 1000
    /\ clock' = clock + 500
    /\ UNCHANGED <<epochStartTimestamp, minEpochDuration, calls>>
    /\ UNCHANGED <<epochVars, orderVars, trancheVars, decimalVars, convertVars, valuationVars, rateVars, executeVars, clientVars, eventVars, waitVars, apiVars, engineVars>>

CanCloseEpoch ==
    /\ Len(calls) < MaxCalls
    /\ calls' = Append(calls, [fn |-> "canCloseEpoch", at |-> clock,
                               result |-> canCloseEpoch(epochStartTimestamp,
                                                        minEpochDuration)])
    /\ UNCHANGED <<clock, epochStartTimestamp, minEpochDuration>>
    /\ UNCHANGED <<epochVars, orderVars, trancheVars, decimalVars, convertVars, valuationVars, rateVars, executeVars, clientVars, eventVars, waitVars, apiVars, engineVars>>

GetEpochCloseCountdown ==
    /\ Len(calls) < MaxCalls
    /\ calls' = Append(calls, [fn |-> "getEpochCloseCountdown", at |-> clock,
                               result |-> getEpochCloseCountdown(epochStartTimestamp,
                                                                 minEpochDuration)])
    /\ UNCHANGED <<clock, epochStartTimestamp, minEpochDuration>>
    /\ UNCHANGED <<epochVars, orderVars, trancheVars, decimalVars, convertVars, valuationVars, rateVars, executeVars, clientVars, eventVars, waitVars, apiVars, engineVars>>

TimeUntilEpochClose ==
    /\ Len(calls) < MaxCalls
    /\ calls' = Append(calls, [fn |-> "timeUntilEpochClose", at |-> clock,
                               result |-> timeUntilEpochClose(epochStartTimestamp,
                                                              minEpochDuration)])
    /\ UNCHANGED <<clock, epochStartTimestamp, minEpochDuration>>
    /\ UNCHANGED <<epochVars, orderVars, trancheVars, decimalVars, convertVars, valuationVars, rateVars, executeVars, clientVars, eventVars, waitVars, apiVars, engineVars>>

\* The clock starts a day after the zero of time; epochs that started at the
\* zero of time or a second from now, with a minimum duration of seconds or the default.
InitGate ==
    /\ clock = EPOCH_DEFAULTS.minEpochTime * 1000
    /\ epochStartTimestamp \in {0, EPOCH_DEFAULTS.minEpochTime + 1}
    /\ minEpochDuration \in {None} \cup {Some(k) : k \in 1..2}
    /\ calls = <<>>
    /\ IdleEpoch /\ IdleOrders /\ IdleTranches /\ IdleDecimal /\ IdleConvert /\ IdleValuation /\ IdleRate /\ IdleExecute /\ IdleClient /\ IdleEvents /\ IdleWait /\ IdleApi /\ IdleEngine

NextGate ==
    \/ Tick
    \/ CanCloseEpoch
    \/ GetEpochCloseCountdown
    \/ TimeUntilEpochClose

SpecGate == InitGate /\ [][NextGate]_vars

-----------------------------------------------------------------------------
(* Rate conversions: aprToPerSecRate, perSecRateToAPR (utils/unitConverter) *)
(*                                                                         *)
(* Rates have 27 decimals, beyond the integers of the model checker. A     *)
(* bigint of this section is the sequence of its digits in base 10^4,      *)
(* least significant first and without leading zeros (0 is the empty       *)
(* sequence); a number is an IEEE 754 double [m, e], standing for m * 2^e  *)
(* with 2^52 <= m < 2^53, or m = 0.                                        *)

\* the digit d below the digits of a: 10^4 * a + d
Shift(d, a) == IF a = <<>> /\ d = 0 THEN <<>> ELSE <<d>> \o a

RECURSIVE BigOf(_)
BigOf(n) == IF n = 0 THEN <<>> ELSE <<n % 10000>> \o BigOf(n \div 10000)

\* a * k + c for machine integers 0 <= k, c < 2 * 10^5
RECURSIVE BigMulSmall(_, _, _)
BigMulSmall(a, k, c) ==
    IF a = <<>> THEN BigOf(c)
    ELSE LET t == Head(a) * k + c
         IN  Shift(t % 10000, BigMulSmall(Tail(a), k, t \div 10000))

\* a + b + c for a carry c of 0 or 1
RECURSIVE BigAdd(_, _, _)
BigAdd(a, b, c) ==
    IF a = <<>> THEN BigMulSmall(b, 1, c)
    ELSE IF b = <<>> THEN BigMulSmall(a, 1, c)
    ELSE LET t == Head(a) + Head(b) + c
         IN  <<t % 10000>> \o BigAdd(Tail(a), Tail(b), t \div 10000)

\* a - b - c for a >= b + c and a borrow c of 0 or 1
RECURSIVE BigSub(_, _, _)
BigSub(a, b, c) ==
    IF a = <<>> THEN <<>>
    ELSE LET y == (IF b = <<>> THEN 0 ELSE Head(b)) + c
             rest == IF b = <<>> THEN b ELSE Tail(b)
         IN  IF Head(a) >= y
             THEN Shift(Head(a) - y, BigSub(Tail(a), rest, 0))
             ELSE Shift(Head(a) + 10000 - y, BigSub(Tail(a), rest, 1))

BigLess(a, b) ==
    IF Len(a) # Len(b) THEN Len(a) < Len(b)
    ELSE \E i \in 1..Len(a) :
            a[i] < b[i] /\ \A j \in (i + 1)..Len(a) : a[j] = b[j]

RECURSIVE BigMul(_, _)
BigMul(a, b) ==
    IF a = <<>> \/ b = <<>> THEN <<>>
    ELSE BigAdd(BigMulSmall(a, Head(b), 0), Shift(0, BigMul(a, Tail(b))), 0)

\* quotient and remainder of a by a machine integer k, 0 < k < 2 * 10^5
RECURSIVE BigDivSmall(_, _)
BigDivSmall(a, k) ==
    IF a = <<>> THEN [quot |-> <<>>, rem |-> 0]
    ELSE LET high == BigDivSmall(Tail(a), k)
             t == high.rem * 10000 + Head(a)
         IN  [quot |-> Shift(t \div k, high.quot), rem |-> t % k]

\* the bigint operator / by a product of machine integers: dividing by the
\* factors in turn, each time rounding down, is dividing by their product
RECURSIVE BigDiv(_, _)
BigDiv(a, factors) ==
    IF factors = <<>> THEN a
    ELSE BigDiv(BigDivSmall(a, Head(factors)).quot, Tail(factors))

\* a * 2^e rounded down, fifteen bits at a time
RECURSIVE BigScale2(_, _)
BigScale2(a, e) ==
    IF e > 15 THEN BigScale2(BigMulSmall(a, 2^15, 0), e - 15)
    ELSE IF e >= 0 THEN BigMulSmall(a, 2^e, 0)
    ELSE IF e < -15 THEN BigScale2(BigDivSmall(a, 2^15).quot, e + 15)
    ELSE BigDivSmall(a, 2^(-e)).quot

TwoTo(n) == BigScale2(<<1>>, n)

\* the number of bits of a > 0: 2^(n-1) <= a < 2^n
BitLength(a) ==
    CHOOSE n \in (13 * (Len(a) - 1))..(14 * Len(a)) :
        ~BigLess(a, TwoTo(n - 1)) /\ BigLess(a, TwoTo(n))

IsOdd(a) == a # <<>> /\ a[1] % 2 = 1

\* the double nearest to p / k * 2^e for a machine integer k, 0 < k < 2 * 10^5:
\* the quotient of p * 2^t by k has more than 53 bits, of which the first 53
\* are kept and the rest decide the rounding, a tie going to the even one
DoubleOf(p, k, e) ==
    IF p = <<>> THEN [m |-> <<>>, e |-> 0]
    ELSE LET t == Max(0, 72 - BitLength(p))
             d == BigDivSmall(BigScale2(p, t), k)
             s == BitLength(d.quot) - 53
             above == BigScale2(d.quot, 1 - s)
             sticky == BigScale2(above, s - 1) # d.quot \/ d.rem # 0
             kept == BigScale2(above, -1)
             m == IF IsOdd(above) /\ (sticky \/ IsOdd(kept))
                  THEN BigAdd(kept, <<1>>, 0) ELSE kept
         IN  IF m = TwoTo(53) THEN [m |-> TwoTo(52), e |-> e - t + s + 1]
             ELSE [m |-> m, e |-> e - t + s]

\* the value of a string of digits with at most one point, the point left out
RECURSIVE DigitsOf(_)
DigitsOf(s) ==
    IF s = <<>> THEN <<>>
    ELSE IF s[Len(s)] = "." THEN DigitsOf(SubSeq(s, 1, Len(s) - 1))
    ELSE BigMulSmall(DigitsOf(SubSeq(s, 1, Len(s) - 1)), 10, DigitValue(s[Len(s)]))

\* bigint.toString()
RECURSIVE BigToString(_)
BigToString(a) ==
    IF Len(a) <= 1 THEN IntToDigits(IF a = <<>> THEN 0 ELSE a[1])
    ELSE BigToString(Tail(a)) \o padStart(IntToDigits(Head(a)), 4, "0")

\* parseFloat of a string of digits with at most one point
parseFloat(s) ==
    LET parts == Split(s, ".")
        fraction == IF Len(parts) >= 2 THEN parts[2] ELSE <<>>
    IN  DoubleOf(DigitsOf(s), Pow10(Len(fraction)), 0)

\* the number operators x / k for a machine integer k, and x * y
DoubleDiv(x, k) == DoubleOf(x.m, k, x.e)

DoubleMul(x, y) == DoubleOf(BigMul(x.m, y.m), 1, x.e + y.e)

\* x.toFixed(2) for a number 0 <= x < 1e21: the integer n nearest to 100 x,
\* the larger one on a tie, written with a point before its last two digits
toFixed2(x) ==
    LET twice == BigMulSmall(x.m, 200, 0)
        n == IF x.e > 0 THEN BigScale2(twice, x.e - 1)
             ELSE BigScale2(BigAdd(twice, TwoTo(-x.e), 0), x.e - 1)
        digits == padStart(BigToString(n), 3, "0")
    IN  SubSeq(digits, 1, Len(digits) - 2) \o <<".">>
        \o SubSeq(digits, Len(digits) - 1, Len(digits))

\* BigInt(10) ** BigInt(27), and its factors
RAY == <<0, 0, 0, 0, 0, 0, 1000>>

RayFactors == <<1000, 10000, 10000, 10000, 10000, 10000, 10000>>

\* 365 * 24 * 60 * 60
SecondsPerYearFactors == <<365, 24, 60, 60>>

SECONDS_PER_YEAR == BigOf(365 * 24 * 60 * 60)

\* the annual percentage rate computed with exact arithmetic instead of numbers
aprToPerSecRateExact(aprStr) ==
    LET parts == Split(aprStr, ".")
        fraction == IF Len(parts) >= 2 THEN parts[2] ELSE <<>>
        rateIncrease == BigDiv(BigDiv(BigMul(DigitsOf(aprStr), RAY),
                                      <<100, Pow10(Len(fraction))>>),
                               SecondsPerYearFactors)
    IN  BigAdd(RAY, rateIncrease, 0)

\* an APR given as a string of digits with at most one point
aprToPerSecRate(aprStr) ==
    LET aprNum == parseFloat(aprStr)
        scaled == DoubleMul(DoubleDiv(aprNum, 100), DoubleOf(RAY, 1, 0))
        rateIncrease == BigDiv(BigScale2(scaled.m, scaled.e), SecondsPerYearFactors)
    IN  BigAdd(RAY, rateIncrease, 0)

\* a rate per second at or above RAY, as a bigint
perSecRateToAPR(ratePerSec) ==
    LET rate == ratePerSec
        annualRate == BigDiv(BigMul(BigMul(BigSub(rate, RAY, 0), SECONDS_PER_YEAR),
                                    BigOf(10000)), RayFactors)
    IN  toFixed2(DoubleDiv(DoubleOf(annualRate, 1, 0), 100))

AprToPerSecRate ==
    /\ perSecRate = None
    /\ perSecRate' = Some(aprToPerSecRate(apr))
    /\ UNCHANGED <<apr, recovered, recoveredPlusRay>>
    /\ UNCHANGED <<epochVars, orderVars, trancheVars, decimalVars, convertVars, valuationVars, clockVars, executeVars, clientVars, eventVars, waitVars, apiVars, engineVars>>

\* perSecRateToAPR(aprToPerSecRate(apr))
PerSecRateToAPR ==
    /\ perSecRate # None
    /\ recovered = None
    /\ recovered' = Some(perSecRateToAPR(perSecRate[1]))
    /\ UNCHANGED <<apr, perSecRate, recoveredPlusRay>>
    /\ UNCHANGED <<epochVars, orderVars, trancheVars, decimalVars, convertVars, valuationVars, clockVars, executeVars, clientVars, eventVars, waitVars, apiVars, engineVars>>

\* perSecRateToAPR(RAY + aprToPerSecRate(apr)): the caller adds RAY to the rate
PerSecRateToAPRPlusRay ==
    /\ perSecRate # None
    /\ recoveredPlusRay = None
    /\ recoveredPlusRay' = Some(perSecRateToAPR(BigAdd(RAY, perSecRate[1], 0)))
    /\ UNCHANGED <<apr, perSecRate, recovered>>
    /\ UNCHANGED <<epochVars, orderVars, trancheVars, decimalVars, convertVars, valuationVars, clockVars, executeVars, clientVars, eventVars, waitVars, apiVars, engineVars>>

\* Annual percentage rates from 0 up, whole or with one or two decimals.
InitRate ==
    /\ apr \in {toString(i) : i \in 0..MaxApr}
                \cup {toString(i) \o <<".">> \o f :
                         i \in 0..MaxApr, f \in {<<"5">>, <<"2", "5">>, <<"0", "1">>}}
    /\ perSecRate = None
    /\ recovered = None
    /\ recoveredPlusRay = None
    /\ IdleEpoch /\ IdleOrders /\ IdleTranches /\ IdleDecimal /\ IdleConvert /\ IdleValuation /\ IdleClock /\ IdleExecute /\ IdleClient /\ IdleEvents /\ IdleWait /\ IdleApi /\ IdleEngine

NextRate ==
    \/ AprToPerSecRate
    \/ PerSecRateToAPR
    \/ PerSecRateToAPRPlusRay

SpecRate == InitRate /\ [][NextRate]_vars

-----------------------------------------------------------------------------
(* The node's execute (Centrifuge.node), validateAddress                   *)
(* (utils/addressUtils), validatePoolId (utils/poolUtils) and the          *)
(* SubstrateClient's connect / disconnect (transport/substrateClient)      *)
(*                                                                         *)
(* An address is a string; isAddress of the polkadot library is membership *)
(* in the set of well-formed SS58 addresses. A pool id is a sequence of    *)
(* characters. An awaited call on a client succeeds or fails as the        *)
(* network decides.                                                        *)

SS58Addresses == {"4dpEcgqFor2TJw9uWSjx2JpjkNmTic2UjJAK1j9fRtcTUoRu"}

isAddress(address) == address \in SS58Addresses

\* validateAddress(address) without a network: an object, never a boolean
validateAddress(address) ==
    IF address = "" THEN [isValid |-> FALSE, error |-> "Address must be a non-empty string"]
    ELSE IF ~isAddress(address) THEN [isValid |-> FALSE, error |-> "Invalid SS58 address format"]
    ELSE [isValid |-> TRUE, error |-> ""]

\* validatePoolId(poolId): an object, never a boolean
validatePoolId(poolId) ==
    IF ~BigIntParses(poolId) THEN [isValid |-> FALSE, error |-> "Invalid pool ID format"]
    ELSE IF BigInt(poolId) < 0 THEN [isValid |-> FALSE, error |-> "Pool ID must be positive"]
    ELSE [isValid |-> TRUE, error |-> ""]

\* JavaScript's ToBoolean of an object: every object is truthy, so that
\* !validateAddress(...) and !validatePoolId(...) are false
ToBoolean(object) == TRUE

\* the outcome of one item's operation: whether it threw, the error's message,
\* and the client methods it called on the way
Done(called) == [threw |-> FALSE, message |-> "", called |-> called]
Failed(message, called) == [threw |-> TRUE, message |-> message, called |-> called]

\* an awaited call on a client: resolves when ok, rejects otherwise
Awaited(method, ok) ==
    IF ok THEN Done(<<method>>) ELSE Failed("request failed", <<method>>)

\* SubstrateClient.getAccountInfo validates the address itself before it queries
getAccountInfo(address, ok) ==
    IF ~validateAddress(address).isValid
    THEN Failed("Invalid address: " \o validateAddress(address).error,
                <<"substrateClient.getAccountInfo">>)
    ELSE Awaited("substrateClient.getAccountInfo", ok)

\* convertAddress decodes the address and throws on a malformed one
convertAddress(address) ==
    IF isAddress(address) THEN Done(<<>>) ELSE Failed("Invalid decoded address", <<>>)

\* the body of execute's inner try for one item
itemOperation(res, op, item, apiClient, ipfsClient, ok) ==
    CASE res = "account" /\ op = "getBalance" ->
           IF ~ToBoolean(validateAddress(item.address)) THEN Failed("Invalid address", <<>>)
           ELSE getAccountInfo(item.address, ok)
      [] res = "account" /\ op = "transfer" ->
           IF ~ToBoolean(validateAddress(item.address)) THEN Failed("Invalid recipient", <<>>)
           ELSE Awaited("substrateClient.submitTransaction", ok)
      [] res = "pool" /\ op = "getAll" ->
           IF apiClient THEN Awaited("apiClient.getPools", ok) ELSE Done(<<>>)
      [] res = "pool" /\ op = "getPool" ->
           IF ~ToBoolean(validatePoolId(item.poolId)) THEN Failed("Invalid pool ID", <<>>)
           ELSE IF apiClient THEN Awaited("apiClient.getPool", ok) ELSE Done(<<>>)
      [] res = "tranche" ->
           IF ~ToBoolean(validatePoolId(item.poolId)) THEN Failed("Invalid pool ID", <<>>)
           ELSE IF apiClient THEN Awaited("apiClient.getPoolTranches", ok) ELSE Done(<<>>)
      [] res = "investment" /\ op = "getPositions" ->
           IF apiClient /\ item.address # ""
           THEN Awaited("apiClient.getInvestorPositions", ok) ELSE Done(<<>>)
      [] res = "loan" ->
           IF ~ToBoolean(validatePoolId(item.poolId)) THEN Failed("Invalid pool ID", <<>>)
           ELSE IF op = "getAll"
           THEN IF apiClient THEN Awaited("apiClient.getPoolLoans", ok) ELSE Done(<<>>)
           ELSE IF op = "getLoan"
           THEN IF apiClient THEN Awaited("apiClient.getLoan", ok) ELSE Done(<<>>)
           ELSE Done(<<>>)
      [] res = "document" ->
           IF ~ipfsClient THEN Failed("IPFS credentials required", <<>>)
           ELSE IF op = "uploadToIpfs" THEN Awaited("ipfsClient.uploadDocument", ok)
           ELSE IF op = "getFromIpfs" THEN Awaited("ipfsClient.get", ok)
           ELSE Done(<<>>)
      [] res = "utility" /\ op = "getChainInfo" ->
           IF ok THEN Done(<<"substrateClient.getChainInfo",
                             "substrateClient.getCurrentBlockNumber">>)
           ELSE Failed("request failed", <<"substrateClient.getChainInfo">>)
      [] res = "utility" /\ op = "convertAddress" ->
           IF ~ToBoolean(validateAddress(item.address)) THEN Failed("Invalid address", <<>>)
           ELSE convertAddress(item.address)
      [] OTHER -> Done(<<>>)


\* a SubstrateClient as its constructor leaves it
NewSubstrateClient == [api |-> FALSE, connected |-> FALSE]

\* how far SubstrateClient.connect gets: ApiPromise.create rejects, api.isReady
\* rejects, initializeKeyring throws, or all of it succeeds
ConnectOutcomes == {"createRejects", "isReadyRejects", "keyringThrows", "ready"}

\* SubstrateClient.connect: the client afterwards and whether the call threw
connect(client, outcome) ==
    IF client.connected /\ client.api THEN [client |-> client, threw |-> FALSE]
    ELSE IF outcome = "createRejects" THEN [client |-> client, threw |-> TRUE]
    ELSE IF outcome = "isReadyRejects"
    THEN [client |-> [client EXCEPT !.api = TRUE], threw |-> TRUE]
    ELSE [client |-> [api |-> TRUE, connected |-> TRUE],
          threw |-> outcome = "keyringThrows"]

\* (a disconnect that forgets the connected flag)
disconnectKeepsFlag(client) ==
    IF client.api THEN [client EXCEPT !.api = FALSE] ELSE client

\* SubstrateClient.disconnect
disconnect(client) ==
    IF client.api THEN [api |-> FALSE, connected |-> FALSE] ELSE client

\* (a catch that ignores continueOnFail and always rethrows)
catchItemErrorAlwaysThrows(flag, message) ==
    [rethrow |-> TRUE, pushed |-> <<>>]

\* the catch of the inner try: push {error: message} and continue, or rethrow
catchItemError(flag, message) ==
    IF flag THEN [rethrow |-> FALSE, pushed |-> <<[json |-> [error |-> message]]>>]
    ELSE [rethrow |-> TRUE, pushed |-> <<>>]

ClientCall(item, method) == [item |-> item, method |-> method]

\* execute up to the loop: create and connect the substrate client for the
\* account and utility resources
Connect ==
    /\ pc = "start"
    /\ IF resource \in {"account", "utility"}
       THEN \E outcome \in ConnectOutcomes :
              LET c == connect(NewSubstrateClient, outcome)
              IN  /\ substrateClient' = Some(c.client)
                  /\ clientCalls' = Append(clientCalls, ClientCall(0, "substrateClient.connect"))
                  /\ IF c.threw
                     THEN pc' = "finally" /\ pending' = Some("connect failed")
                     ELSE pc' = "loop" /\ pending' = None
       ELSE /\ substrateClient' = None
            /\ clientCalls' = clientCalls
            /\ pc' = "loop"
            /\ pending' = None
    /\ itemIndex' = 1
    /\ UNCHANGED <<resource, operation, items, continueOnFail, credentials,
                   returnData, output, attempted>>
    /\ UNCHANGED <<epochVars, orderVars, trancheVars, decimalVars, convertVars, valuationVars, clockVars, rateVars, clientVars, eventVars, waitVars, apiVars, engineVars>>

\* one round of the for loop: item i's operation, then the push of its result
\* or the catch
ProcessItem ==
    /\ pc = "loop"
    /\ itemIndex <= Len(items)
    /\ \E ok \in BOOLEAN :
         LET r == itemOperation(resource, operation, items[itemIndex],
                                "centrifugeApi" \in credentials,
                                "ipfsStorage" \in credentials, ok)
             caught == catchItemError(continueOnFail, r.message)
         IN  /\ clientCalls' = clientCalls \o
                    [k \in 1..Len(r.called) |-> ClientCall(itemIndex, r.called[k])]
             /\ attempted' = Append(attempted, r)
             /\ IF ~r.threw
                THEN /\ returnData' = Append(returnData, [json |-> "result"])
                     /\ itemIndex' = itemIndex + 1
                     /\ UNCHANGED <<pc, pending>>
                ELSE IF ~caught.rethrow
                THEN /\ returnData' = returnData \o caught.pushed
                     /\ itemIndex' = itemIndex + 1
                     /\ UNCHANGED <<pc, pending>>
                ELSE /\ pending' = Some(r.message)
                     /\ pc' = "finally"
                     /\ UNCHANGED <<returnData, itemIndex>>
    /\ UNCHANGED <<resource, operation, items, continueOnFail, credentials,
                   output, substrateClient>>
    /\ UNCHANGED <<epochVars, orderVars, trancheVars, decimalVars, convertVars, valuationVars, clockVars, rateVars, clientVars, eventVars, waitVars, apiVars, engineVars>>

\* the loop condition fails: on to the finally block
LeaveLoop ==
    /\ pc = "loop"
    /\ itemIndex > Len(items)
    /\ pc' = "finally"
    /\ UNCHANGED <<resource, operation, items, continueOnFail, credentials, itemIndex,
                   returnData, pending, output, substrateClient, clientCalls, attempted>>
    /\ UNCHANGED <<epochVars, orderVars, trancheVars, decimalVars, convertVars, valuationVars, clockVars, rateVars, clientVars, eventVars, waitVars, apiVars, engineVars>>

\* the finally block, then the return of [returnData] or the pending throw
Finally ==
    /\ pc = "finally"
    /\ IF substrateClient # None
       THEN /\ substrateClient' = Some(disconnect(substrateClient[1]))
            /\ clientCalls' = Append(clientCalls, ClientCall(0, "substrateClient.disconnect"))
       ELSE UNCHANGED <<substrateClient, clientCalls>>
    /\ IF pending # None
       THEN pc' = "thrown" /\ output' = None
       ELSE pc' = "returned" /\ output' = Some(returnData)
    /\ UNCHANGED <<resource, operation, items, continueOnFail, credentials, itemIndex,
                   returnData, pending, attempted>>
    /\ UNCHANGED <<epochVars, orderVars, trancheVars, decimalVars, convertVars, valuationVars, clockVars, rateVars, clientVars, eventVars, waitVars, apiVars, engineVars>>

\* the resource and operation pairs of the node
Operations ==
    {<<"account", "getBalance">>, <<"account", "transfer">>,
     <<"pool", "getAll">>, <<"pool", "getPool">>, <<"tranche", "getAll">>,
     <<"investment", "getOrders">>, <<"investment", "getPositions">>,
     <<"loan", "getAll">>, <<"loan", "getLoan">>,
     <<"document", "uploadToIpfs">>, <<"document", "getFromIpfs">>,
     <<"utility", "getChainInfo">>, <<"utility", "validateAddress">>,
     <<"utility", "convertAddress">>}

\* the parameters of one item: a well-formed or a malformed address, a numeric
\* or a non-numeric pool id
ItemParameters ==
    [address : SS58Addresses \cup {"not-an-address"},
     poolId : {<<"1">>, <<"a", "b", "c">>}]

InitExecute ==
    /\ \E o \in Operations : resource = o[1] /\ operation = o[2]
    /\ items \in SeqsUpTo(ItemParameters, MaxItems)
    /\ continueOnFail \in BOOLEAN
    /\ credentials \in {{}, {"centrifugeApi", "ipfsStorage"}}
    /\ pc = "start"
    /\ itemIndex = 0
    /\ returnData = <<>>
    /\ pending = None
    /\ output = None
    /\ substrateClient = None
    /\ clientCalls = <<>>
    /\ attempted = <<>>
    /\ IdleEpoch /\ IdleOrders /\ IdleTranches /\ IdleDecimal /\ IdleConvert /\ IdleValuation /\ IdleClock /\ IdleRate /\ IdleClient /\ IdleEvents /\ IdleWait /\ IdleApi /\ IdleEngine

NextExecute == Connect \/ ProcessItem \/ LeaveLoop \/ Finally

SpecExecute == InitExecute /\ [][NextExecute]_vars

-----------------------------------------------------------------------------
(* SubscriptionClient (constants/networks): connect, disconnect,           *)
(* handleReconnect and the handlers of the provider's events               *)
(*                                                                         *)
(* A WsProvider that was created and not disconnected reconnects on its    *)
(* own and emits 'connected' and 'disconnected' as the network decides; a  *)
(* WsProvider that is disconnected emits 'disconnected' once more, when    *)
(* its socket has closed. The handlers stay registered on every provider   *)
(* the client ever created.                                                *)

maxReconnectAttempts == 10

reconnectDelay == 5000

RECURSIVE Pow2(_)
Pow2(n) == IF n = 0 THEN 1 ELSE 2 * Pow2(n - 1)

Min(a, b) == IF a <= b THEN a ELSE b

\* an emitted event, with the value of reconnectAttempts when it was emitted
Emitted(event) == Some([event |-> event, attempts |-> reconnectAttempts])

\* (a bound that admits one attempt too many)
handleReconnectOffByOne(attempts) ==
    IF attempts > maxReconnectAttempts
    THEN [attempts |-> attempts, delay |-> None]
    ELSE [attempts |-> attempts + 1,
          delay |-> Some(reconnectDelay * Pow2(attempts))]

\* handleReconnect up to its await: the counter afterwards and the delay of the
\* attempt it starts, None when it emits 'maxReconnectAttemptsReached' instead
handleReconnect(attempts) ==
    IF attempts >= maxReconnectAttempts
    THEN [attempts |-> attempts, delay |-> None]
    ELSE [attempts |-> attempts + 1,
          delay |-> Some(reconnectDelay * Pow2((attempts + 1) - 1))]

\* a call of handleReconnect; emittedBefore is what the client emitted last
\* before the call
CallHandleReconnect(emittedBefore) ==
    LET h == handleReconnect(reconnectAttempts)
    IN  /\ reconnectAttempts' = h.attempts
        /\ IF h.delay = None
           THEN /\ lastEmitted' = Emitted("maxReconnectAttemptsReached")
                /\ UNCHANGED <<waiting, attemptDelays>>
           ELSE /\ waiting < MaxWaiting
                /\ waiting' = waiting + 1
                /\ attemptDelays' = Append(attemptDelays, h.delay[1])
                /\ lastEmitted' = emittedBefore

\* connect past its early return: a new WsProvider with the three handlers
NewProvider ==
    /\ provider' = "live"
    /\ sockets' = Min(sockets + 1, MaxSockets)

\* the 'connected' handler
ProviderConnected ==
    /\ sockets > 0
    /\ reconnectAttempts' = 0
    /\ attemptDelays' = <<>>
    /\ lastEmitted' = Some([event |-> "connected", attempts |-> reconnectAttempts'])
    /\ UNCHANGED <<api, provider, isConnected, subscriptions, sockets, closing, waiting,
                   creating, caller, closed>>
    /\ UNCHANGED <<epochVars, orderVars, trancheVars, decimalVars, convertVars, valuationVars, clockVars, rateVars, executeVars, eventVars, waitVars, apiVars, engineVars>>

\* the 'disconnected' handler, for a provider that lost its socket or failed
\* to open it
ProviderDisconnected ==
    /\ sockets > 0
    /\ isConnected' = FALSE
    /\ CallHandleReconnect(Emitted("disconnected"))
    /\ UNCHANGED <<api, provider, subscriptions, sockets, closing, creating, caller, closed>>
    /\ UNCHANGED <<epochVars, orderVars, trancheVars, decimalVars, convertVars, valuationVars, clockVars, rateVars, executeVars, eventVars, waitVars, apiVars, engineVars>>

\* the 'disconnected' handler, for a provider that was disconnected by a call
ProviderClosed ==
    /\ closing > 0
    /\ closing' = closing - 1
    /\ isConnected' = FALSE
    /\ CallHandleReconnect(Emitted("disconnected"))
    /\ UNCHANGED <<api, provider, subscriptions, sockets, creating, caller, closed>>
    /\ UNCHANGED <<epochVars, orderVars, trancheVars, decimalVars, convertVars, valuationVars, clockVars, rateVars, executeVars, eventVars, waitVars, apiVars, engineVars>>

\* the 'error' handler
ProviderError ==
    /\ sockets > 0
    /\ lastEmitted' = Emitted("error")
    /\ UNCHANGED <<api, provider, isConnected, reconnectAttempts, subscriptions, sockets,
                   closing, waiting, creating, caller, attemptDelays, closed>>
    /\ UNCHANGED <<epochVars, orderVars, trancheVars, decimalVars, convertVars, valuationVars, clockVars, rateVars, executeVars, eventVars, waitVars, apiVars, engineVars>>

\* handleReconnect wakes up: connect(), and resubscribeAll() if connect returns
\* at once
ReconnectTimer ==
    /\ waiting > 0
    /\ waiting' = waiting - 1
    /\ IF isConnected /\ api
       THEN /\ lastEmitted' = Emitted("reconnected")
            /\ UNCHANGED <<provider, sockets, creating>>
       ELSE /\ creating < MaxCreating
            /\ NewProvider
            /\ creating' = creating + 1
            /\ UNCHANGED lastEmitted
    /\ UNCHANGED <<api, isConnected, reconnectAttempts, subscriptions, closing, caller,
                   attemptDelays, closed>>
    /\ UNCHANGED <<epochVars, orderVars, trancheVars, decimalVars, convertVars, valuationVars, clockVars, rateVars, executeVars, eventVars, waitVars, apiVars, engineVars>>

\* ApiPromise.create resolves for a connect of handleReconnect: the rest of
\* connect, then resubscribeAll
ReconnectSucceeds ==
    /\ creating > 0
    /\ sockets > 0
    /\ creating' = creating - 1
    /\ api' = TRUE
    /\ isConnected' = TRUE
    /\ lastEmitted' = Emitted("reconnected")
    /\ UNCHANGED <<provider, reconnectAttempts, subscriptions, sockets, closing, waiting,
                   caller, attemptDelays, closed>>
    /\ UNCHANGED <<epochVars, orderVars, trancheVars, decimalVars, convertVars, valuationVars, clockVars, rateVars, executeVars, eventVars, waitVars, apiVars, engineVars>>

\* ApiPromise.create rejects for a connect of handleReconnect: the catch of
\* connect, then the catch of handleReconnect
ReconnectFails ==
    /\ creating > 0
    /\ creating' = creating - 1
    /\ isConnected' = FALSE
    /\ CallHandleReconnect(lastEmitted)
    /\ UNCHANGED <<api, provider, subscriptions, sockets, closing, caller, closed>>
    /\ UNCHANGED <<epochVars, orderVars, trancheVars, decimalVars, convertVars, valuationVars, clockVars, rateVars, executeVars, eventVars, waitVars, apiVars, engineVars>>


\* the caller calls connect()
CallerConnect ==
    /\ caller = "idle"
    /\ closed' = FALSE
    /\ IF isConnected /\ api
       THEN UNCHANGED <<provider, sockets, caller>>
       ELSE NewProvider /\ caller' = "connect"
    /\ UNCHANGED <<api, isConnected, reconnectAttempts, subscriptions, closing, waiting,
                   creating, lastEmitted, attemptDelays>>
    /\ UNCHANGED <<epochVars, orderVars, trancheVars, decimalVars, convertVars, valuationVars, clockVars, rateVars, executeVars, eventVars, waitVars, apiVars, engineVars>>

\* the caller calls subscribe(), which connects first when there is no connection
CallerSubscribe ==
    /\ caller = "idle"
    /\ Cardinality(subscriptions) < MaxSubscriptions
    /\ closed' = FALSE
    /\ IF api /\ isConnected
       THEN /\ \E id \in (1..MaxSubscriptions) \ subscriptions :
                 subscriptions' = subscriptions \cup {id}
            /\ UNCHANGED <<provider, sockets, caller>>
       ELSE /\ NewProvider
            /\ caller' = "subscribe"
            /\ UNCHANGED subscriptions
    /\ UNCHANGED <<api, isConnected, reconnectAttempts, closing, waiting, creating,
                   lastEmitted, attemptDelays>>
    /\ UNCHANGED <<epochVars, orderVars, trancheVars, decimalVars, convertVars, valuationVars, clockVars, rateVars, executeVars, eventVars, waitVars, apiVars, engineVars>>

\* ApiPromise.create resolves for the caller's connect: the rest of connect,
\* and of subscribe if subscribe called it
CallerConnectSucceeds ==
    /\ caller \in {"connect", "subscribe"}
    /\ sockets > 0
    /\ api' = TRUE
    /\ isConnected' = TRUE
    /\ IF caller = "subscribe"
       THEN \E id \in (1..MaxSubscriptions) \ subscriptions :
                subscriptions' = subscriptions \cup {id}
       ELSE UNCHANGED subscriptions
    /\ caller' = "idle"
    /\ UNCHANGED <<provider, reconnectAttempts, sockets, closing, waiting, creating,
                   lastEmitted, attemptDelays, closed>>
    /\ UNCHANGED <<epochVars, orderVars, trancheVars, decimalVars, convertVars, valuationVars, clockVars, rateVars, executeVars, eventVars, waitVars, apiVars, engineVars>>

\* ApiPromise.create rejects for the caller's connect: the catch of connect
CallerConnectFails ==
    /\ caller \in {"connect", "subscribe"}
    /\ isConnected' = FALSE
    /\ caller' = "idle"
    /\ UNCHANGED <<api, provider, reconnectAttempts, subscriptions, sockets, closing, waiting,
                   creating, lastEmitted, attemptDelays, closed>>
    /\ UNCHANGED <<epochVars, orderVars, trancheVars, decimalVars, convertVars, valuationVars, clockVars, rateVars, executeVars, eventVars, waitVars, apiVars, engineVars>>

\* WsProvider.disconnect on the client's provider: it stops reconnecting and
\* its socket closes
DisconnectProvider ==
    IF provider = "live"
    THEN provider' = "closed" /\ sockets' = sockets - 1 /\ closing' = closing + 1
    ELSE UNCHANGED <<provider, sockets, closing>>

\* the caller calls disconnect(): up to its first await
CallerDisconnect ==
    /\ caller = "idle"
    /\ closing < MaxClosing
    /\ closed' = TRUE
    /\ subscriptions' = {}
    /\ IF api
       THEN /\ DisconnectProvider
            /\ caller' = "apiDisconnect"
            /\ UNCHANGED <<isConnected, lastEmitted>>
       ELSE IF provider # "none"
       THEN /\ DisconnectProvider
            /\ caller' = "providerDisconnect"
            /\ UNCHANGED <<isConnected, lastEmitted>>
       ELSE /\ isConnected' = FALSE
            /\ lastEmitted' = Emitted("disconnected")
            /\ UNCHANGED <<provider, sockets, closing, caller>>
    /\ UNCHANGED <<api, reconnectAttempts, waiting, creating, attemptDelays>>
    /\ UNCHANGED <<epochVars, orderVars, trancheVars, decimalVars, convertVars, valuationVars, clockVars, rateVars, executeVars, eventVars, waitVars, apiVars, engineVars>>

\* disconnect() after await this.api.disconnect()
ApiDisconnected ==
    /\ caller = "apiDisconnect"
    /\ api' = FALSE
    /\ IF provider # "none"
       THEN /\ DisconnectProvider
            /\ caller' = "providerDisconnect"
            /\ UNCHANGED <<isConnected, lastEmitted>>
       ELSE /\ isConnected' = FALSE
            /\ lastEmitted' = Emitted("disconnected")
            /\ caller' = "idle"
            /\ UNCHANGED <<provider, sockets, closing>>
    /\ UNCHANGED <<reconnectAttempts, subscriptions, waiting, creating, attemptDelays, closed>>
    /\ UNCHANGED <<epochVars, orderVars, trancheVars, decimalVars, convertVars, valuationVars, clockVars, rateVars, executeVars, eventVars, waitVars, apiVars, engineVars>>

\* disconnect() after await this.provider.disconnect()
ProviderDisconnectReturned ==
    /\ caller = "providerDisconnect"
    /\ provider' = "none"
    /\ isConnected' = FALSE
    /\ lastEmitted' = Emitted("disconnected")
    /\ caller' = "idle"
    /\ UNCHANGED <<api, reconnectAttempts, subscriptions, sockets, closing, waiting, creating,
                   attemptDelays, closed>>
    /\ UNCHANGED <<epochVars, orderVars, trancheVars, decimalVars, convertVars, valuationVars, clockVars, rateVars, executeVars, eventVars, waitVars, apiVars, engineVars>>

\* a client as its constructor leaves it
InitClient ==
    /\ api = FALSE
    /\ provider = "none"
    /\ isConnected = FALSE
    /\ reconnectAttempts = 0
    /\ subscriptions = {}
    /\ sockets = 0
    /\ closing = 0
    /\ waiting = 0
    /\ creating = 0
    /\ caller = "idle"
    /\ lastEmitted = None
    /\ attemptDelays = <<>>
    /\ closed = FALSE
    /\ IdleEpoch /\ IdleOrders /\ IdleTranches /\ IdleDecimal /\ IdleConvert /\ IdleValuation /\ IdleClock /\ IdleRate /\ IdleExecute /\ IdleEvents /\ IdleWait /\ IdleApi /\ IdleEngine

NextClient ==
    \/ CallerConnect \/ CallerSubscribe \/ CallerConnectSucceeds \/ CallerConnectFails
    \/ CallerDisconnect \/ ApiDisconnected \/ ProviderDisconnectReturned
    \/ ProviderConnected \/ ProviderDisconnected \/ ProviderClosed \/ ProviderError
    \/ ReconnectTimer \/ ReconnectSucceeds \/ ReconnectFails

SpecClient == InitClient /\ [][NextClient]_vars

-----------------------------------------------------------------------------
(* Events: SubscriptionClient.subscribeToCategory, processEvents,          *)
(* matchEventType, getEventCategory, getEventTypesForCategory              *)
(* (constants/networks) and the trigger's subscription                     *)
(* (CentrifugeTrigger.node)                                                *)
(*                                                                         *)
(* An optional argument is None when it is undefined and Some(value)       *)
(* otherwise; an array is a sequence.                                      *)

\* EVENT_MAPPINGS, in the order of its keys
EVENT_MAPPINGS ==
    <<
      [type |-> "PoolCreated", pallet |-> "poolRegistry", events |-> {"Created", "Registered"}],
      [type |-> "PoolUpdated", pallet |-> "poolRegistry", events |-> {"Updated", "MetadataSet"}],
      [type |-> "EpochClosed", pallet |-> "poolSystem", events |-> {"EpochClosed"}],
      [type |-> "EpochExecuted", pallet |-> "poolSystem", events |-> {"EpochExecuted", "SolutionSubmitted"}],
      [type |-> "NavUpdated", pallet |-> "poolSystem", events |-> {"NavUpdated", "PriceSet"}],
      [type |-> "PoolStateChanged", pallet |-> "poolSystem", events |-> {"StateChanged"}],
      [type |-> "InvestOrderSubmitted", pallet |-> "investments", events |-> {"InvestOrderUpdated", "InvestOrdersCollected"}],
      [type |-> "RedeemOrderSubmitted", pallet |-> "investments", events |-> {"RedeemOrderUpdated", "RedeemOrdersCollected"}],
      [type |-> "InvestmentCollected", pallet |-> "investments", events |-> {"InvestCollected", "InvestOrdersCleared"}],
      [type |-> "RedemptionCollected", pallet |-> "investments", events |-> {"RedeemCollected", "RedeemOrdersCleared"}],
      [type |-> "OrderCancelled", pallet |-> "investments", events |-> {"InvestOrderUpdated", "RedeemOrderUpdated"}],
      [type |-> "LoanCreated", pallet |-> "loans", events |-> {"Created"}],
      [type |-> "LoanPriced", pallet |-> "loans", events |-> {"Priced"}],
      [type |-> "LoanBorrowed", pallet |-> "loans", events |-> {"Borrowed"}],
      [type |-> "LoanRepaid", pallet |-> "loans", events |-> {"Repaid"}],
      [type |-> "LoanClosed", pallet |-> "loans", events |-> {"Closed"}],
      [type |-> "LoanWrittenOff", pallet |-> "loans", events |-> {"WrittenOff"}],
      [type |-> "InterestAccrued", pallet |-> "loans", events |-> {"InterestAccrued"}],
      [type |-> "AssetCreated", pallet |-> "uniques", events |-> {"Created", "Issued"}],
      [type |-> "AssetUpdated", pallet |-> "uniques", events |-> {"MetadataSet", "AttributeSet"}],
      [type |-> "AssetTransferred", pallet |-> "uniques", events |-> {"Transferred"}],
      [type |-> "DocumentAnchored", pallet |-> "anchors", events |-> {"AnchorCommitted", "AnchorEvicted"}],
      [type |-> "TransferReceived", pallet |-> "balances", events |-> {"Transfer"}],
      [type |-> "TransferSent", pallet |-> "balances", events |-> {"Transfer"}],
      [type |-> "BalanceChanged", pallet |-> "balances", events |-> {"Deposit", "Withdraw", "Reserved", "Unreserved"}],
      [type |-> "PermissionGranted", pallet |-> "permissions", events |-> {"Added"}],
      [type |-> "PermissionRevoked", pallet |-> "permissions", events |-> {"Removed"}],
      [type |-> "ProposalCreated", pallet |-> "democracy", events |-> {"Proposed", "Submitted"}],
      [type |-> "VoteCast", pallet |-> "democracy", events |-> {"Voted"}],
      [type |-> "ProposalPassed", pallet |-> "democracy", events |-> {"Passed"}],
      [type |-> "ProposalRejected", pallet |-> "democracy", events |-> {"NotPassed", "Cancelled"}],
      [type |-> "ReferendumStarted", pallet |-> "democracy", events |-> {"Started"}],
      [type |-> "EpochStarted", pallet |-> "poolSystem", events |-> {"EpochClosed"}],
      [type |-> "OrdersSubmitted", pallet |-> "poolSystem", events |-> {"SubmissionPeriodStarted"}],
      [type |-> "SolutionSubmitted", pallet |-> "poolSystem", events |-> {"SolutionSubmitted"}]>>

\* categoryMap of getEventCategory
categoryMap ==
    ("PoolCreated" :> "pool" @@
     "PoolUpdated" :> "pool" @@
     "EpochClosed" :> "pool" @@
     "EpochExecuted" :> "pool" @@
     "NavUpdated" :> "pool" @@
     "PoolStateChanged" :> "pool" @@
     "InvestOrderSubmitted" :> "investment" @@
     "RedeemOrderSubmitted" :> "investment" @@
     "InvestmentCollected" :> "investment" @@
     "RedemptionCollected" :> "investment" @@
     "OrderCancelled" :> "investment" @@
     "LoanCreated" :> "loan" @@
     "LoanPriced" :> "loan" @@
     "LoanBorrowed" :> "loan" @@
     "LoanRepaid" :> "loan" @@
     "LoanClosed" :> "loan" @@
     "LoanWrittenOff" :> "loan" @@
     "InterestAccrued" :> "loan" @@
     "AssetCreated" :> "asset" @@
     "AssetUpdated" :> "asset" @@
     "AssetTransferred" :> "asset" @@
     "DocumentAnchored" :> "document" @@
     "TransferReceived" :> "account" @@
     "TransferSent" :> "account" @@
     "BalanceChanged" :> "account" @@
     "PermissionGranted" :> "permissions" @@
     "PermissionRevoked" :> "permissions" @@
     "ProposalCreated" :> "governance" @@
     "VoteCast" :> "governance" @@
     "ProposalPassed" :> "governance" @@
     "ProposalRejected" :> "governance" @@
     "ReferendumStarted" :> "governance" @@
     "EpochStarted" :> "epoch" @@
     "OrdersSubmitted" :> "epoch" @@
     "SolutionSubmitted" :> "epoch")

\* getEventCategory(eventType): categoryMap[eventType] || 'pool'
getEventCategory(eventType) ==
    IF eventType \in DOMAIN categoryMap THEN categoryMap[eventType] ELSE "pool"

\* categoryEvents of getEventTypesForCategory
categoryEvents ==
    ("pool" :> <<"PoolCreated", "PoolUpdated", "EpochClosed", "EpochExecuted", "NavUpdated", "PoolStateChanged">> @@
     "investment" :> <<"InvestOrderSubmitted", "RedeemOrderSubmitted", "InvestmentCollected", "RedemptionCollected", "OrderCancelled">> @@
     "loan" :> <<"LoanCreated", "LoanPriced", "LoanBorrowed", "LoanRepaid", "LoanClosed", "LoanWrittenOff", "InterestAccrued">> @@
     "asset" :> <<"AssetCreated", "AssetUpdated", "AssetTransferred", "DocumentAnchored">> @@
     "account" :> <<"TransferReceived", "TransferSent", "BalanceChanged", "PermissionGranted", "PermissionRevoked">> @@
     "governance" :> <<"ProposalCreated", "VoteCast", "ProposalPassed", "ProposalRejected", "ReferendumStarted">> @@
     "epoch" :> <<"EpochStarted", "OrdersSubmitted", "SolutionSubmitted", "EpochExecuted">> @@
     "document" :> <<"DocumentAnchored">> @@
     "permissions" :> <<"PermissionGranted", "PermissionRevoked">> @@
     "bridge" :> <<>>)

\* getEventTypesForCategory(category): categoryEvents[category] || []
getEventTypesForCategory(category) ==
    IF category \in DOMAIN categoryEvents THEN categoryEvents[category] ELSE <<>>

\* the categories of type EventCategory
EventCategories ==
    {"pool", "investment", "loan", "asset", "account", "governance", "epoch",
     "document", "permissions", "bridge"}

\* the options of the trigger's Event Category parameter
TriggerCategories ==
    {"pool", "investment", "loan", "account", "epoch", "governance", "document", "all"}

\* the pallet events of the chain: those of EVENT_MAPPINGS and one of no mapping
ChainEvents ==
    UNION {{<<EVENT_MAPPINGS[i].pallet, e>> : e \in EVENT_MAPPINGS[i].events} :
              i \in 1..Len(EVENT_MAPPINGS)}
    \cup {<<"system", "ExtrinsicSuccess">>}

\* matchEventType(pallet, method, eventTypes): the first mapping of the pallet
\* event whose type is asked for; every type is asked for when eventTypes is
\* undefined, none when it is the empty array
matchEventType(pallet, method, types) ==
    LET hits == {i \in 1..Len(EVENT_MAPPINGS) :
                    /\ EVENT_MAPPINGS[i].pallet = pallet
                    /\ method \in EVENT_MAPPINGS[i].events
                    /\ types = None \/ Contains(types[1], EVENT_MAPPINGS[i].type)}
    IN  IF hits = {} THEN None
        ELSE Some(EVENT_MAPPINGS[CHOOSE i \in hits : \A j \in hits : i <= j].type)

\* processEvents for one record: the event handed to the callback, None when
\* the record matches no type or the filter rejects it
processEvent(pallet, method, types, passesFilter) ==
    LET matched == matchEventType(pallet, method, types)
    IN  IF matched = None THEN None
        ELSE IF ~passesFilter THEN None
        ELSE Some([type |-> matched[1], category |-> getEventCategory(matched[1])])

\* the eventTypes option of the subscription the trigger makes: typedEventTypes
\* is computed from the Event Types parameter and not handed on
triggerSubscription(category, selected) ==
    IF category = "all" THEN None
    ELSE Some(getEventTypesForCategory(category))

\* the trigger subscribes
Trigger ==
    /\ subscription = None
    /\ eventCategory \in TriggerCategories
    /\ subscription' = Some([by |-> "trigger",
                             eventTypes |-> triggerSubscription(eventCategory, eventTypes)])
    /\ UNCHANGED <<eventCategory, eventTypes, delivered>>
    /\ UNCHANGED <<epochVars, orderVars, trancheVars, decimalVars, convertVars, valuationVars, clockVars, rateVars, executeVars, clientVars, waitVars, apiVars, engineVars>>

\* a caller subscribes with subscribeToCategory(eventCategory, filter, callback)
SubscribeToCategory ==
    /\ subscription = None
    /\ eventCategory # "all"
    /\ eventTypes = <<>>
    /\ subscription' = Some([by |-> "subscribeToCategory",
                             eventTypes |-> Some(getEventTypesForCategory(eventCategory))])
    /\ UNCHANGED <<eventCategory, eventTypes, delivered>>
    /\ UNCHANGED <<epochVars, orderVars, trancheVars, decimalVars, convertVars, valuationVars, clockVars, rateVars, executeVars, clientVars, waitVars, apiVars, engineVars>>

\* the chain reports an event record: processEvents, and the callback if the
\* record gets through
ChainEvent ==
    /\ subscription # None
    /\ \E record \in ChainEvents, passesFilter \in BOOLEAN :
         delivered' = processEvent(record[1], record[2], subscription[1].eventTypes,
                                   passesFilter)
    /\ UNCHANGED <<eventCategory, eventTypes, subscription>>
    /\ UNCHANGED <<epochVars, orderVars, trancheVars, decimalVars, convertVars, valuationVars, clockVars, rateVars, executeVars, clientVars, waitVars, apiVars, engineVars>>

\* any category, with up to MaxSelected event types of that category selected
InitEvents ==
    /\ eventCategory \in EventCategories \cup TriggerCategories
    /\ eventTypes \in SeqsUpTo({getEventTypesForCategory(eventCategory)[i] :
                                   i \in 1..Len(getEventTypesForCategory(eventCategory))},
                               MaxSelected)
    /\ subscription = None
    /\ delivered = None
    /\ IdleEpoch /\ IdleOrders /\ IdleTranches /\ IdleDecimal /\ IdleConvert /\ IdleValuation /\ IdleClock /\ IdleRate /\ IdleExecute /\ IdleClient /\ IdleWait /\ IdleApi /\ IdleEngine

NextEvents == Trigger \/ SubscribeToCategory \/ ChainEvent

SpecEvents == InitEvents /\ [][NextEvents]_vars

-----------------------------------------------------------------------------
(* waitForEvent (constants/networks), with SubscriptionClient.subscribe    *)
(* and unsubscribe                                                         *)
(*                                                                         *)
(* The k-th call gets the subscription id k. Its subscribe is "called",    *)
(* then "registered" once the chain knows the callback, then "returned"    *)
(* once subscribe has stored the id in the subscriptions map and returned, *)
(* then "assigned" once the then-callback has stored the id in the         *)
(* subscriptionId variable; or it "failed".                                *)

\* SubscriptionClient.unsubscribe(subscriptionId): the subscriptions map
\* afterwards; id is None for undefined
unsubscribe(active, id) ==
    IF id # None /\ id[1] \in active THEN active \ {id[1]} ELSE active

\* the chain still calls the callback of call k
Listening(k) ==
    \/ waitCalls[k].subscribe = "registered"
    \/ waitCalls[k].subscribe \in {"returned", "assigned"} /\ k \in subscriptions

Settle(state, outcome) == IF state = "pending" THEN outcome ELSE state

\* waitForEvent is called: the timer is set and subscribe is called
WaitForEvent ==
    /\ Len(waitCalls) < MaxWaits
    /\ waitCalls' = Append(waitCalls, [subscribe |-> "called", timer |-> "pending",
                                       promise |-> "pending", subscriptionId |-> None])
    /\ UNCHANGED clientVars
    /\ UNCHANGED <<epochVars, orderVars, trancheVars, decimalVars, convertVars, valuationVars, clockVars, rateVars, executeVars, eventVars, apiVars, engineVars>>

\* api.query.system.events has registered the callback
SubscribeRegisters ==
    /\ \E k \in 1..Len(waitCalls) :
         /\ waitCalls[k].subscribe = "called"
         /\ waitCalls' = [waitCalls EXCEPT ![k].subscribe = "registered"]
    /\ UNCHANGED clientVars
    /\ UNCHANGED <<epochVars, orderVars, trancheVars, decimalVars, convertVars, valuationVars, clockVars, rateVars, executeVars, eventVars, apiVars, engineVars>>

\* subscribe stores the id in the subscriptions map and returns it
SubscribeReturns ==
    /\ \E k \in 1..Len(waitCalls) :
         /\ waitCalls[k].subscribe = "registered"
         /\ waitCalls' = [waitCalls EXCEPT ![k].subscribe = "returned"]
         /\ subscriptions' = subscriptions \cup {k}
    /\ UNCHANGED <<api, provider, isConnected, reconnectAttempts, sockets, closing, waiting,
                   creating, caller, lastEmitted, attemptDelays, closed>>
    /\ UNCHANGED <<epochVars, orderVars, trancheVars, decimalVars, convertVars, valuationVars, clockVars, rateVars, executeVars, eventVars, apiVars, engineVars>>

\* the then-callback: subscriptionId = id
IdAssigned ==
    /\ \E k \in 1..Len(waitCalls) :
         /\ waitCalls[k].subscribe = "returned"
         /\ waitCalls' = [waitCalls EXCEPT ![k].subscribe = "assigned",
                                           ![k].subscriptionId = Some(k)]
    /\ UNCHANGED clientVars
    /\ UNCHANGED <<epochVars, orderVars, trancheVars, decimalVars, convertVars, valuationVars, clockVars, rateVars, executeVars, eventVars, apiVars, engineVars>>

\* subscribe rejects: the catch rejects the promise
SubscribeFails ==
    /\ \E k \in 1..Len(waitCalls) :
         /\ waitCalls[k].subscribe = "called"
         /\ waitCalls' = [waitCalls EXCEPT ![k].subscribe = "failed",
                                           ![k].promise = Settle(@, "rejected")]
    /\ UNCHANGED clientVars
    /\ UNCHANGED <<epochVars, orderVars, trancheVars, decimalVars, convertVars, valuationVars, clockVars, rateVars, executeVars, eventVars, apiVars, engineVars>>

\* a matching event arrives: clearTimeout, unsubscribe(subscriptionId), resolve
EventCallback ==
    /\ \E k \in 1..Len(waitCalls) :
         /\ Listening(k)
         /\ waitCalls' = [waitCalls EXCEPT
                ![k].timer = IF @ = "pending" THEN "cleared" ELSE @,
                ![k].promise = Settle(@, "resolved")]
         /\ subscriptions' = unsubscribe(subscriptions, waitCalls[k].subscriptionId)
    /\ UNCHANGED <<api, provider, isConnected, reconnectAttempts, sockets, closing, waiting,
                   creating, caller, lastEmitted, attemptDelays, closed>>
    /\ UNCHANGED <<epochVars, orderVars, trancheVars, decimalVars, convertVars, valuationVars, clockVars, rateVars, executeVars, eventVars, apiVars, engineVars>>

\* the timer fires: unsubscribe(subscriptionId), reject
Timeout ==
    /\ \E k \in 1..Len(waitCalls) :
         /\ waitCalls[k].timer = "pending"
         /\ waitCalls' = [waitCalls EXCEPT ![k].timer = "fired",
                                           ![k].promise = Settle(@, "rejected")]
         /\ subscriptions' = unsubscribe(subscriptions, waitCalls[k].subscriptionId)
    /\ UNCHANGED <<api, provider, isConnected, reconnectAttempts, sockets, closing, waiting,
                   creating, caller, lastEmitted, attemptDelays, closed>>
    /\ UNCHANGED <<epochVars, orderVars, trancheVars, decimalVars, convertVars, valuationVars, clockVars, rateVars, executeVars, eventVars, apiVars, engineVars>>

\* a connected client, with or without a subscription of its own (id 0)
InitWait ==
    /\ api = TRUE
    /\ provider = "live"
    /\ isConnected = TRUE
    /\ reconnectAttempts = 0
    /\ subscriptions \in {{}, {0}}
    /\ sockets = 1
    /\ closing = 0
    /\ waiting = 0
    /\ creating = 0
    /\ caller = "none"
    /\ lastEmitted = None
    /\ attemptDelays = <<>>
    /\ closed = FALSE
    /\ waitCalls = <<>>
    /\ IdleEpoch /\ IdleOrders /\ IdleTranches /\ IdleDecimal /\ IdleConvert /\ IdleValuation /\ IdleClock /\ IdleRate /\ IdleExecute /\ IdleEvents /\ IdleApi /\ IdleEngine

NextWait ==
    \/ WaitForEvent \/ SubscribeRegisters \/ SubscribeReturns \/ IdAssigned
    \/ SubscribeFails \/ EventCallback \/ Timeout

SpecWait == InitWait /\ [][NextWait]_vars

-----------------------------------------------------------------------------
(* CentrifugeApiClient (transport/centrifugeApi): checkRateLimit, request, *)
(* graphqlQuery                                                            *)
(*                                                                         *)
(* The wall clock advances in steps of 20 seconds; a timer fires at the    *)
(* clock reading it was set for.                                           *)

minute == 60 * 1000

DefaultRateLimit == 60

ClockStep == 20 * 1000

\* the first clock reading: a day after the epoch of Date.now()
ClockStart == 24 * 60 * 60 * 1000

\* checkRateLimit up to its await: the fields afterwards, and the waitTime of
\* the sleep it starts, None when it returns at once
checkRateLimit(limit, now, last, count) ==
    LET reset == now - last > minute
        last1 == IF reset THEN now ELSE last
        count1 == IF reset THEN 0 ELSE count
    IN  IF count1 >= OrDefault(limit, DefaultRateLimit)
        THEN [lastRequestTime |-> last1, requestCount |-> count1,
              waitTime |-> Some(minute - (now - last1))]
        ELSE [lastRequestTime |-> last1, requestCount |-> count1 + 1, waitTime |-> None]

\* a call of checkRateLimit by the method via, and the HTTP request after it
\* unless the call sleeps
CallCheckRateLimit(via) ==
    LET c == checkRateLimit(rateLimit, clock, lastRequestTime, requestCount)
    IN  /\ Len(issued) + Len(sleepers) < MaxRequests
        /\ lastRequestTime' = c.lastRequestTime
        /\ requestCount' = c.requestCount
        /\ IF c.waitTime = None
           THEN /\ issued' = Append(issued, [at |-> clock, via |-> via])
                /\ UNCHANGED sleepers
           ELSE /\ sleepers' = Append(sleepers, [wake |-> clock + c.waitTime[1], via |-> via])
                /\ UNCHANGED issued

\* request(config)
Request ==
    /\ CallCheckRateLimit("request")
    /\ UNCHANGED <<rateLimit, subqueryEndpoint, clockVars>>
    /\ UNCHANGED <<epochVars, orderVars, trancheVars, decimalVars, convertVars, valuationVars, rateVars, executeVars, clientVars, eventVars, waitVars, engineVars>>

\* graphqlQuery(query), which throws at once without a SubQuery endpoint
GraphqlQuery ==
    /\ subqueryEndpoint
    /\ CallCheckRateLimit("graphqlQuery")
    /\ UNCHANGED <<rateLimit, subqueryEndpoint, clockVars>>
    /\ UNCHANGED <<epochVars, orderVars, trancheVars, decimalVars, convertVars, valuationVars, rateVars, executeVars, clientVars, eventVars, waitVars, engineVars>>

\* the sleep of a call in checkRateLimit ends: the rest of checkRateLimit,
\* then the HTTP request
WakeUp ==
    /\ \E k \in 1..Len(sleepers) :
         /\ sleepers[k].wake <= clock
         /\ sleepers' = SubSeq(sleepers, 1, k - 1) \o SubSeq(sleepers, k + 1, Len(sleepers))
         /\ issued' = Append(issued, [at |-> clock, via |-> sleepers[k].via])
    /\ requestCount' = 0 + 1
    /\ lastRequestTime' = clock
    /\ UNCHANGED <<rateLimit, subqueryEndpoint, clockVars>>
    /\ UNCHANGED <<epochVars, orderVars, trancheVars, decimalVars, convertVars, valuationVars, rateVars, executeVars, clientVars, eventVars, waitVars, engineVars>>

\* 20 seconds pass, once every timer that is due has fired
ApiTick ==
    /\ clock + ClockStep <= ClockStart + MaxMinutes * minute
    /\ \A k \in 1..Len(sleepers) : sleepers[k].wake > clock
    /\ clock' = clock + ClockStep
    /\ UNCHANGED <<epochStartTimestamp, minEpochDuration, calls>>
    /\ UNCHANGED apiVars
    /\ UNCHANGED <<epochVars, orderVars, trancheVars, decimalVars, convertVars, valuationVars, rateVars, executeVars, clientVars, eventVars, waitVars, engineVars>>

\* a client as its constructor leaves it, with or without a rate limit and a
\* SubQuery endpoint in its configuration
InitApi ==
    /\ rateLimit \in {None} \cup {Some(n) : n \in 1..MaxRateLimit}
    /\ subqueryEndpoint \in BOOLEAN
    /\ lastRequestTime = 0
    /\ requestCount = 0
    /\ sleepers = <<>>
    /\ issued = <<>>
    /\ clock = ClockStart
    /\ epochStartTimestamp = 0
    /\ minEpochDuration = None
    /\ calls = <<>>
    /\ IdleEpoch /\ IdleOrders /\ IdleTranches /\ IdleDecimal /\ IdleConvert /\ IdleValuation /\ IdleRate /\ IdleExecute /\ IdleClient /\ IdleEvents /\ IdleWait /\ IdleEngine

NextApi == Request \/ GraphqlQuery \/ WakeUp \/ ApiTick

SpecApi == InitApi /\ [][NextApi]_vars

-----------------------------------------------------------------------------
(* Epoch clearing engine: solution construction                            *)
(*                                                                         *)
(* The repository declares what the engine produces (EpochSolution,        *)
(* TrancheAllocation) and validates it (validateSolution), but holds no    *)
(* engine.  The construction below follows the specification's section on  *)
(* the clearing engine; it aggregates, shares and validates with the       *)
(* repository's own functions.                                             *)

\* the tranches of the pool, senior first
SeniorToJunior == <<TrancheIds[1], TrancheIds[3]>>

\* an order of the epoch on the given tranche and direction
EpochOrder(i, trancheId, orderType, amount) ==
    [Order(i, amount, "Pending") EXCEPT !.trancheId = trancheId, !.orderType = orderType]

\* the orders of one tranche and direction
ordersOf(book, trancheId, orderType) ==
    SelectSeq(book, LAMBDA o : o.trancheId = trancheId /\ o.orderType = orderType)

\* desired total of one tranche and direction, from the order aggregator
desiredTotal(book, trancheId, orderType) ==
    BigInt(aggregateOrders(ordersOf(book, trancheId, orderType)).totalAmount)

\* reserve headroom: maxReserve - reserve for invests, reserve for redeems
reserveHeadroom(cons, state) ==
    [Invest |-> Max(0, cons.maxReserve - state.reserve),
     Redeem |-> Max(0, state.reserve)]

\* the amounts served out of the liquidity left, tranches taken senior to junior
RECURSIVE serveSeniorFirst(_, _)
serveSeniorFirst(demands, liquidity) ==
    IF demands = <<>> THEN <<>>
    ELSE LET amount == IF Head(demands) <= liquidity THEN Head(demands) ELSE liquidity
         IN  <<amount>> \o serveSeniorFirst(Tail(demands), liquidity - amount)

\* the amount every tranche is served in one direction
fulfillable(book, orderType, cons, state) ==
    serveSeniorFirst([t \in 1..Len(SeniorToJunior) |->
                         desiredTotal(book, SeniorToJunior[t], orderType)],
                     reserveHeadroom(cons, state)[orderType])

\* the TrancheAllocation list of the candidate solution
candidateAllocations(book, cons, state) ==
    LET invest == fulfillable(book, "Invest", cons, state)
        redeem == fulfillable(book, "Redeem", cons, state)
    IN  [t \in 1..Len(SeniorToJunior) |->
            [trancheId |-> SeniorToJunior[t],
             investAmount |-> toString(invest[t]),
             investFulfillmentRatio |->
                 calculateFulfillmentRatio(
                     toString(desiredTotal(book, SeniorToJunior[t], "Invest")),
                     toString(invest[t])),
             redeemAmount |-> toString(redeem[t]),
             redeemFulfillmentRatio |->
                 calculateFulfillmentRatio(
                     toString(desiredTotal(book, SeniorToJunior[t], "Redeem")),
                     toString(redeem[t]))]]

\* what every order receives: its pro-rata share of the amount its tranche
\* and direction is served
orderShares(book, allocations) ==
    [i \in 1..Len(book) |->
        LET t == CHOOSE k \in 1..Len(SeniorToJunior) : SeniorToJunior[k] = book[i].trancheId
            served == IF book[i].orderType = "Invest"
                      THEN allocations[t].investAmount
                      ELSE allocations[t].redeemAmount
        IN  calculateProRataShare(book[i].amount,
                                  toString(desiredTotal(book, book[i].trancheId,
                                                        book[i].orderType)),
                                  served)]

\* the engine: the candidate when it passes validateSolution, otherwise no
\* allocation at all and the violations found
constructSolution(book, cons, state) ==
    LET allocations == candidateAllocations(book, cons, state)
        candidate == [investFulfillment |-> allocations,
                      redeemFulfillment |-> allocations,
                      isFeasible |-> TRUE,
                      score |-> 1]
        checked == validateSolution(candidate, cons, state)
    IN  IF checked.isValid
        THEN [solution |-> candidate, violations |-> <<>>,
              shares |-> orderShares(book, allocations)]
        ELSE [solution |-> [investFulfillment |-> <<>>, redeemFulfillment |-> <<>>,
                            isFeasible |-> FALSE, score |-> 0],
              violations |-> checked.violations,
              shares |-> <<>>]

\* the engine computes the solution of the epoch
ConstructSolution ==
    /\ engineResult = None
    /\ LET built == constructSolution(epochOrders, constraints, currentState)
       IN  /\ solution' = built.solution
           /\ engineResult' = Some([violations |-> built.violations, shares |-> built.shares])
    /\ validation' = None
    /\ UNCHANGED <<constraints, currentState, epochOrders>>
    /\ UNCHANGED <<orderVars, trancheVars, decimalVars, convertVars, valuationVars, clockVars, rateVars, executeVars, clientVars, eventVars, waitVars, apiVars>>

\* the order books of an epoch: up to MaxBook orders of amount 1 or 2 on two
\* tranches
EpochOrderBooks ==
    {[i \in 1..Len(p) |-> EpochOrder(i, p[i][1], p[i][2], p[i][3])] :
        p \in SeqsUpTo({SeniorToJunior[t] : t \in 1..Len(SeniorToJunior)}
                           \X {"Invest", "Redeem"} \X {1, 2},
                       MaxBook)}

\* An epoch at its close: the orders taken, the pool's reserve below, at and
\* above maxReserve, the subordination above or below its minimum.
InitEngine ==
    /\ epochOrders \in EpochOrderBooks
    /\ engineResult = None
    /\ solution = [investFulfillment |-> <<>>, redeemFulfillment |-> <<>>,
                   isFeasible |-> TRUE, score |-> 1]
    /\ \E r \in 0..MaxValue :
         currentState = [reserve |-> r, seniorValue |-> 800, juniorValue |-> 200,
                         nav |-> 1000 + r]
    /\ \E mr \in {1, 2}, m \in {Rat(1, 10), Rat(1, 4)} :
         constraints = [maxReserve |-> mr, minSubordinationRatio |-> m,
                        maxNavDecrease |-> Rat(10, 1)]
    /\ validation = None
    /\ IdleOrders /\ IdleTranches /\ IdleDecimal /\ IdleConvert /\ IdleValuation /\ IdleClock /\ IdleRate /\ IdleExecute /\ IdleClient /\ IdleEvents /\ IdleWait /\ IdleApi

NextEngine == ConstructSolution \/ ValidateSolution

SpecEngine == InitEngine /\ [][NextEngine]_vars

-----------------------------------------------------------------------------
(* Claims about validateSolution *)

RECURSIVE SumInvest(_)
SumInvest(allocations) ==
    IF allocations = <<>> THEN 0
    ELSE BigInt(allocations[1].investAmount) + SumInvest(Tail(allocations))

RECURSIVE SumRedeem(_)
SumRedeem(allocations) ==
    IF allocations = <<>> THEN 0
    ELSE BigInt(allocations[1].redeemAmount) + SumRedeem(Tail(allocations))

\* reserve plus the invest amounts allocated by investFulfillment minus the
\* redeem amounts allocated by redeemFulfillment
AllocatedReserve ==
    currentState.reserve + SumInvest(solution.investFulfillment)
                         - SumRedeem(solution.redeemFulfillment)

\* reserve plus investAmount minus redeemAmount of every TrancheAllocation the
\* solution holds, in either list
AllAllocations == solution.investFulfillment \o solution.redeemFulfillment

ReserveAcrossAllAllocations ==
    currentState.reserve + SumInvest(AllAllocations) - SumRedeem(AllAllocations)

Reported(violation) == validation # None /\ Contains(validation[1].violations, violation)

\* C1: validateSolution never returns isValid = true when the projected reserve
\* (reserve plus allocated invest amounts minus allocated redeem amounts) is
\* negative; the violations then hold 'Insufficient reserve for redemptions'.
C1_NegativeReserveNeverValid ==
    (validation # None /\ AllocatedReserve < 0)
        => (~validation[1].isValid /\ Reported(InsufficientReserve))

\* a solution whose only fault is a negative projected reserve has been validated
C1_Witness ==
    /\ validation # None
    /\ AllocatedReserve < 0
    /\ validation[1].violations = <<InsufficientReserve>>

PoolTotal == currentState.seniorValue + currentState.juniorValue

\* juniorValue / (seniorValue + juniorValue) < minSubordinationRatio, exactly
TrueRatioBelowMin ==
    currentState.juniorValue * constraints.minSubordinationRatio.den
        < constraints.minSubordinationRatio.num * PoolTotal

\* floor(juniorValue * 10^4 / total) / 10^4 < minSubordinationRatio
TruncatedRatioBelowMin ==
    ((currentState.juniorValue * 10000) \div PoolTotal)
            * constraints.minSubordinationRatio.den
        < constraints.minSubordinationRatio.num * 10000

\* C3 as stated: 'Below minimum subordination ratio' is reported exactly when
\* the total pool value is nonzero and juniorValue / total is below
\* minSubordinationRatio.
C3_BelowExactlyWhenTrueRatioBelow ==
    validation # None
        => (Reported(BelowMinSubordination) <=> (PoolTotal # 0 /\ TrueRatioBelowMin))

\* C3 amended: it is reported exactly when the total is positive and the ratio
\* truncated to 4 decimals is below minSubordinationRatio; so it is reported
\* whenever the true ratio is below the minimum, and never for a zero total.
C3_BelowExactlyWhenTruncatedBelow ==
    validation # None
        => /\ Reported(BelowMinSubordination)
                <=> (PoolTotal > 0 /\ TruncatedRatioBelowMin)
           /\ (PoolTotal > 0 /\ TrueRatioBelowMin) => Reported(BelowMinSubordination)
           /\ PoolTotal = 0 => ~Reported(BelowMinSubordination)

\* the violation is reported for a pool whose true ratio is not below the minimum
C3_Witness ==
    /\ Reported(BelowMinSubordination)
    /\ PoolTotal > 0
    /\ ~TrueRatioBelowMin

-----------------------------------------------------------------------------
(* Claims about the order aggregator *)

Amount(i) == BigInt(orders[i].amount)

\* the sum of the amounts of the first n orders
RECURSIVE SumOfAmounts(_)
SumOfAmounts(n) == IF n = 0 THEN 0 ELSE SumOfAmounts(n - 1) + Amount(n)

TotalDemand == SumOfAmounts(Len(orders))

RECURSIVE SumOfShares(_)
SumOfShares(n) == IF n = 0 THEN 0 ELSE SumOfShares(n - 1) + shares[1][n]

\* C5 as stated: two orders of the same tranche and direction, allocated with
\* calculateProRataShare against the same totalOrders and availableAmount, have
\* the same realized fulfillment ratio share / amount.
C5_IdenticalRealizedRatio ==
    shares # None
        => \A i, j \in 1..Len(orders) :
              (Amount(i) > 0 /\ Amount(j) > 0)
                  => shares[1][i] * Amount(j) = shares[1][j] * Amount(i)

\* C5 amended: the realized ratios are identical up to truncation. Every share
\* is amount x available / total rounded down to a whole unit, so a realized
\* ratio never exceeds available / total and is less than 1 / amount below it;
\* two realized ratios differ by less than 1 / (the smaller amount), and orders
\* of equal amount receive equal shares.
C5_RatioIdenticalUpToTruncation ==
    (shares # None /\ TotalDemand > 0)
        => \A i, j \in 1..Len(orders) :
              /\ shares[1][i] * TotalDemand <= Amount(i) * available
              /\ Amount(i) * available < (shares[1][i] + 1) * TotalDemand
              /\ Amount(i) = Amount(j) => shares[1][i] = shares[1][j]
              /\ (Amount(i) > 0 /\ Amount(j) > 0)
                    => Abs(shares[1][i] * Amount(j) - shares[1][j] * Amount(i))
                          < Max(Amount(i), Amount(j))

\* two orders of different positive amounts have been allocated different ratios
C5_Witness ==
    /\ shares # None
    /\ available < TotalDemand
    /\ \E i, j \in 1..Len(orders) :
          /\ Amount(i) > 0 /\ Amount(j) > 0
          /\ shares[1][i] * Amount(j) # shares[1][j] * Amount(i)

\* C6: with aggregated total T > 0 and 0 <= available <= T, every order's share
\* is at most its own amount, and the shares sum to at most available and at
\* most T.
C6_AllocationWithinDemandAndSupply ==
    (shares # None /\ TotalDemand > 0 /\ available <= TotalDemand)
        => /\ BigInt(summary[1].totalAmount) = TotalDemand
           /\ \A i \in 1..Len(orders) :
                 shares[1][i] >= 0 /\ shares[1][i] <= Amount(i)
           /\ SumOfShares(Len(orders)) <= available
           /\ SumOfShares(Len(orders)) <= TotalDemand

\* several orders share scarce liquidity and truncation leaves part of it unused
C6_Witness ==
    /\ shares # None
    /\ Len(orders) >= 2
    /\ 0 < available /\ available < TotalDemand
    /\ \E i \in 1..Len(orders) : shares[1][i] > 0
    /\ SumOfShares(Len(orders)) < available

\* C7: calculateFulfillmentRatio returns 1 if totalOrders = 0 or the liquidity
\* covers the orders; otherwise floor(liquidity x 10^4 / orders) / 10^4, which is
\* in [0, 1); the result always lies in [0, 1].
C7_FulfillmentRatioContract ==
    fulfillment # None
        => LET f == fulfillment[1]
           IN  /\ (TotalDemand = 0 \/ available >= TotalDemand) => f = Rat(1, 1)
               /\ (TotalDemand # 0 /\ available < TotalDemand)
                     => /\ f.num * 10000 = ((available * 10000) \div TotalDemand) * f.den
                        /\ f.num < f.den
               /\ 0 <= f.num /\ f.num <= f.den

\* scarce liquidity whose ratio does not fit 4 decimals exactly
C7_Witness ==
    /\ fulfillment # None
    /\ 0 < available /\ available < TotalDemand
    /\ (available * 10000) % TotalDemand # 0
    /\ fulfillment[1].num > 0

Reorderings(n) == {p \in [1..n -> 1..n] : \A i, j \in 1..n : i # j => p[i] # p[j]}

Permuted(seq, p) == [i \in 1..Len(seq) |-> seq[p[i]]]

\* C8: aggregateOrders returns the exact integer sum of the amounts, the length
\* of the sequence and (orders with status Fulfilled) / (orders); '0', 0 and 0
\* for the empty sequence; the same summary for every reordering.
C8_AggregateContract ==
    summary # None
        => LET sm == summary[1]
               n == Len(orders)
               done == Cardinality({i \in 1..n : orders[i].status = "Fulfilled"})
           IN  /\ sm.totalAmount = toString(TotalDemand)
               /\ sm.orderCount = n
               /\ n > 0 => sm.fulfillmentRatio.num * n = done * sm.fulfillmentRatio.den
               /\ n = 0 => sm = [totalAmount |-> <<"0">>, orderCount |-> 0,
                                 fulfillmentRatio |-> Rat(0, 1)]
               /\ \A p \in Reorderings(n) : aggregateOrders(Permuted(orders, p)) = sm

\* a mixed sequence, partly fulfilled, has been aggregated
C8_Witness ==
    /\ summary # None
    /\ Len(orders) = 3
    /\ \E i, j \in 1..3 : orders[i].amount # orders[j].amount
    /\ Cardinality({i \in 1..3 : orders[i].status = "Fulfilled"}) = 1
    /\ \E i \in 1..3 : orders[i].status = "PartiallyFulfilled"
    /\ summary[1].totalAmount = <<"3">>

-----------------------------------------------------------------------------
(* Claims about the inputs of the core *)

\* C4: the core only reports: no call of validateSolution, aggregateOrders or
\* sortTranchesBySeniority changes the solution, the constraints, the state
\* snapshot, the order sequence or the tranche list it was handed, violations
\* or not.
C4_InputsNeverMutated ==
    [][/\ solution' = solution
       /\ constraints' = constraints
       /\ currentState' = currentState
       /\ orders' = orders
       /\ tranches' = tranches]_vars

\* all three have been called: violations were found, orders were aggregated
\* and the sorted list differs from the list handed in
C4_Witness ==
    /\ validation # None /\ ~validation[1].isValid
    /\ summary # None /\ Len(orders) > 0
    /\ sorted # None /\ sorted[1] # tranches

-----------------------------------------------------------------------------
(* Claims about the decimal conversions *)

\* a non-negative decimal string without exponent: digits around at most one
\* point, with at least one digit
IsDecimalString(s) ==
    /\ \A i \in 1..Len(s) : IsDigit(s[i]) \/ s[i] = "."
    /\ Cardinality({i \in 1..Len(s) : s[i] = "."}) <= 1
    /\ \E i \in 1..Len(s) : IsDigit(s[i])

\* where the point of s stands, Len(s) + 1 if it has none
PointAt(s) ==
    IF \E i \in 1..Len(s) : s[i] = "."
    THEN CHOOSE i \in 1..Len(s) : s[i] = "."
    ELSE Len(s) + 1

IntegerDigits(s) == SubSeq(s, 1, PointAt(s) - 1)

FractionDigits(s) == SubSeq(s, PointAt(s) + 1, Len(s))

RECURSIVE DropLeadingZeros(_)
DropLeadingZeros(s) ==
    IF Len(s) > 0 /\ s[1] = "0" THEN DropLeadingZeros(SubSeq(s, 2, Len(s))) ELSE s

RECURSIVE DropTrailingZeros(_)
DropTrailingZeros(s) ==
    IF Len(s) > 0 /\ s[Len(s)] = "0"
    THEN DropTrailingZeros(SubSeq(s, 1, Len(s) - 1)) ELSE s

\* s without leading zeros of the integer part and trailing zeros of the
\* fraction, the integer part always present, no point for a whole number
Normalize(s) ==
    LET int == IF DropLeadingZeros(IntegerDigits(s)) = <<>> THEN <<"0">>
               ELSE DropLeadingZeros(IntegerDigits(s))
        frac == DropTrailingZeros(FractionDigits(s))
    IN  IF frac = <<>> THEN int ELSE int \o <<".">> \o frac

\* floor(value(s) x 10^d)
FloorScaled(s, d) ==
    LET k == Len(FractionDigits(s))
    IN  ((DigitsToInt(IntegerDigits(s)) * Pow10(k) + DigitsToInt(FractionDigits(s)))
            * Pow10(d)) \div Pow10(k)

InDomain(s, d) == IsDecimalString(s) /\ Len(FractionDigits(s)) <= d

\* C9: for a non-negative decimal string s without exponent and with at most d
\* fractional digits, fromBaseUnits(toBaseUnits(s, d), d) = normalize(s), and
\* the round trip applied to its own result returns that result.
C9_RoundTripNormalizes ==
    display # None
        => /\ InDomain(amountStr, decimals) => display[1] = Normalize(amountStr)
           /\ (previous # None /\ InDomain(previous[1].amount, decimals))
                 => display[1] = previous[1].display

\* a string with zeros to drop and a fraction to keep went round twice
C9_Witness ==
    /\ display # None
    /\ previous # None
    /\ InDomain(previous[1].amount, decimals)
    /\ previous[1].amount # previous[1].display
    /\ Contains(display[1], ".")
    /\ Contains(display[1], "0")

-----------------------------------------------------------------------------
(* Claims about convertDecimals *)

\* C11: converting an integer to a precision at least as fine and back again
\* gives the integer back: convertDecimals(convertDecimals(v, a, b), b, a) = v
\* whenever b >= a.
C11_UpThenDownIsIdentity ==
    (restored # None /\ targetDecimals >= sourceDecimals)
        => restored[1] = sourceValue

C11_Witness ==
    /\ restored # None
    /\ targetDecimals > sourceDecimals
    /\ sourceValue < 0
    /\ converted[1] = sourceValue * Pow10(targetDecimals - sourceDecimals)
    /\ restored[1] = sourceValue

-----------------------------------------------------------------------------
(* Claims about the ratio functions *)

\* what a ratio function gives for a zero divisor
ZeroOf(op) ==
    IF op \in {"calculateReserveRatio", "calculateSubordination"} THEN Rat(0, 1)
    ELSE IF op = "calculateNavPerShare" THEN <<"0">>
    ELSE 0

\* C13: a zero divisor gives the defined zero and never a thrown error:
\* calculateReserveRatio with nav 0, calculateSubordination with total 0,
\* calculateInvestTokens with tokenPrice 0, calculateProRataShare with
\* totalOrders 0 and calculateNavPerShare with shares 0 ("0") return zero, and
\* calculateReturn with invested 0 returns a percentage of zero, whatever the
\* other arguments are.
C13_ZeroDivisorGivesZero ==
    (valuation # None /\ basis = 0) =>
        LET call == valuation[1]
        IN  /\ ~call.outcome.threw
            /\ IF call.op = "calculateReturn"
               THEN call.outcome.value.percentageReturn = Rat(0, 1)
               ELSE call.outcome.value = ZeroOf(call.op)

C13_Witness ==
    /\ valuation # None
    /\ basis = 0
    /\ quantity = 100
    /\ valuation[1].op = "calculateReserveRatio"
    /\ valuation[1].outcome = Returned(Rat(0, 1))

\* C14: for nav > 0 and reserve >= 0 the reported reserve ratio times 10^4 is
\* floor(reserve * 10^4 / nav): it never exceeds reserve / nav and is less than
\* 0.0001 below it; reserve 100 and nav 1000 give 0.1.
C14_ReserveRatioIsFloorOfFourDecimals ==
    (/\ valuation # None
     /\ valuation[1].op = "calculateReserveRatio"
     /\ basis > 0
     /\ quantity >= 0) =>
        LET ratio == valuation[1].outcome.value
            tenThousandths == (quantity * 10000) \div basis
        IN  /\ ~valuation[1].outcome.threw
            /\ ratio = Rat(tenThousandths, 10000)
            /\ tenThousandths * basis <= quantity * 10000
            /\ quantity * 10000 - tenThousandths * basis < basis
            /\ (quantity = 100 /\ basis = 1000) => ratio = Rat(1, 10)

C14_Witness ==
    /\ valuation # None
    /\ valuation[1].op = "calculateReserveRatio"
    /\ quantity = 2
    /\ basis = 3
    /\ valuation[1].outcome = Returned(Rat(6666, 10000))

-----------------------------------------------------------------------------
(* Claims about malformed input *)

NegativeAmount(order) == BigInt(order.amount) < 0

UnknownTranche(order) == order.trancheId \notin PoolTranches

\* what aggregateOrders returned is an order summary
IsOrderSummary(r) == DOMAIN r = {"totalAmount", "orderCount", "fulfillmentRatio"}

\* C15: an order sequence that holds an order with a negative amount or an
\* unknown tranche id fails with InvalidOrder: aggregateOrders returns no
\* summary for it.
C15_MalformedOrdersGiveNoSummary ==
    (/\ summary # None
     /\ \E i \in 1..Len(orders) :
            NegativeAmount(orders[i]) \/ UnknownTranche(orders[i]))
        => ~IsOrderSummary(summary[1])

\* what validateSolution returned is a validation result
IsValidationResult(r) == DOMAIN r = {"isValid", "violations"}

\* C16: validateSolution handed constraints with a minimum subordination
\* ratio above 1 or a negative maximum reserve fails with InvalidConstraints:
\* it returns no validation result for them.
C16_InvalidConstraintsGiveNoResult ==
    (/\ validation # None
     /\ \/ RatLess(Rat(1, 1), constraints.minSubordinationRatio)
        \/ constraints.maxReserve < 0)
        => ~IsValidationResult(validation[1])

\* the string holds a character that is no digit, sign, point or exponent mark
HasNonNumeric(s) ==
    \E i \in 1..Len(s) : ~IsDigit(s[i]) /\ s[i] \notin {"+", "-", ".", "e", "E"}

\* C12: toBaseUnits fails for every amount string that holds a non-numeric
\* character outside the sign, the point and the exponent, whatever the
\* decimals and wherever the character stands: it never returns an integer for
\* such a string and never drops a part of it.
C12_NonNumericAmountsFail ==
    (baseUnits # None /\ HasNonNumeric(amountStr)) => baseUnits[1].threw

-----------------------------------------------------------------------------
(* Claims about the time gate *)

\* the second the clock showed when a call was made
SecondOf(call) == call.at \div 1000

CloseTime == epochStartTimestamp + OrDefault(minEpochDuration, EPOCH_DEFAULTS.minEpochTime)

\* C17: canCloseEpoch is true exactly when now >= epochStart + minEpochDuration;
\* once it is true it stays true as time advances; and at one instant
\* getEpochCloseCountdown returns 0, and timeUntilEpochClose reports canClose,
\* exactly when canCloseEpoch is true.
C17_TimeGate ==
    \A i \in 1..Len(calls), j \in 1..Len(calls) :
        /\ calls[i].fn = "canCloseEpoch"
              => (calls[i].result <=> SecondOf(calls[i]) >= CloseTime)
        /\ (calls[i].fn = "canCloseEpoch" /\ calls[j].fn = "canCloseEpoch"
            /\ i < j /\ calls[i].result)
              => calls[j].result
        /\ (calls[i].fn = "canCloseEpoch" /\ calls[i].at = calls[j].at
            /\ calls[j].fn = "getEpochCloseCountdown")
              => (calls[j].result = 0 <=> calls[i].result)
        /\ (calls[i].fn = "canCloseEpoch" /\ calls[i].at = calls[j].at
            /\ calls[j].fn = "timeUntilEpochClose")
              => (calls[j].result.canClose <=> calls[i].result)

C17_Witness ==
    /\ Len(calls) = 3
    /\ calls[1] = [fn |-> "canCloseEpoch", at |-> clock - 500, result |-> FALSE]
    /\ calls[2] = [fn |-> "canCloseEpoch", at |-> clock, result |-> TRUE]
    /\ calls[3] = [fn |-> "getEpochCloseCountdown", at |-> clock, result |-> 0]

\* C18 as stated: the time-gated operations are functions of their arguments
\* alone: two calls of one of them with identical arguments return identical
\* results whatever happens between them.
C18_SameArgumentsSameResult ==
    \A i \in 1..Len(calls), j \in 1..Len(calls) :
        calls[i].fn = calls[j].fn => calls[i].result = calls[j].result

\* C18, amended: the time-gated operations take no time parameter; they read
\* the wall clock, and two calls with identical arguments return identical
\* results when the clock shows the same second at both.
C18_SameArgumentsAndSecondSameResult ==
    \A i \in 1..Len(calls), j \in 1..Len(calls) :
        (calls[i].fn = calls[j].fn /\ SecondOf(calls[i]) = SecondOf(calls[j]))
            => calls[i].result = calls[j].result

C18_Witness ==
    /\ Len(calls) >= 2
    /\ calls[1].fn = "canCloseEpoch"
    /\ calls[2].fn = "canCloseEpoch"
    /\ calls[1].at < calls[2].at
    /\ SecondOf(calls[1]) = SecondOf(calls[2])
    /\ calls[1].result = calls[2].result
    /\ SecondOf(calls[2]) + 1 = CloseTime

-----------------------------------------------------------------------------
(* Claims about the rate conversions *)

\* a string of digits with at most one point, written with two decimals
TwoDecimals(s) ==
    LET parts == Split(s, ".")
        fraction == IF Len(parts) >= 2 THEN parts[2] ELSE <<>>
    IN  parts[1] \o <<".">> \o padEnd(fraction, 2, "0")

\* RAY + floor(a / 100 * RAY) / SECONDS_PER_YEAR in exact arithmetic
ExactPerSecRate(s) ==
    LET parts == Split(s, ".")
        fraction == IF Len(parts) >= 2 THEN parts[2] ELSE <<>>
    IN  BigAdd(RAY,
               BigDiv(BigDiv(BigMul(DigitsOf(s), RAY), <<100, Pow10(Len(fraction))>>),
                      SecondsPerYearFactors),
               0)

\* C19: aprToPerSecRate is the inverse of perSecRateToAPR: for an APR a >= 0
\* with at most two decimals, aprToPerSecRate(a) is
\* RAY + floor(a / 100 * RAY) / SECONDS_PER_YEAR, and
\* perSecRateToAPR(aprToPerSecRate(a)) is a written with two decimals.
C19_RateRoundTrip ==
    /\ perSecRate # None => perSecRate[1] = ExactPerSecRate(apr)
    /\ recovered # None => recovered[1] = TwoDecimals(apr)

\* C20 as stated (Scenario D): perSecRateToAPR(RAY + aprToPerSecRate("5")) is
\* "5.00" to within a few hundredths of a percentage point.
C20_ScenarioDRecoversFive ==
    (apr = <<"5">> /\ recoveredPlusRay # None) =>
        LET hundredths == DigitsOf(recoveredPlusRay[1])
        IN  ~BigLess(hundredths, BigOf(495)) /\ ~BigLess(BigOf(505), hundredths)

\* C20, amended: aprToPerSecRate("5") already holds RAY, and
\* perSecRateToAPR(aprToPerSecRate("5")) is "5.00"; with RAY added once more,
\* as Scenario D writes it, the result is "3153600005.00".
C20_FiveRecoveredWithoutSecondRay ==
    /\ (apr = <<"5">> /\ recovered # None) => recovered[1] = <<"5", ".", "0", "0">>
    /\ (apr = <<"5">> /\ recoveredPlusRay # None) =>
           recoveredPlusRay[1] = <<"3", "1", "5", "3", "6", "0", "0", "0", "0", "5",
                                   ".", "0", "0">>

C20_Witness ==
    /\ apr = <<"5">>
    /\ recovered = Some(<<"5", ".", "0", "0">>)
    /\ recoveredPlusRay # None
    /\ BigLess(BigOf(505), DigitsOf(recoveredPlusRay[1]))

-----------------------------------------------------------------------------
(* Claims about the node's execute *)

\* the operation reads an address and tests it with validateAddress
ChecksAddress ==
    \/ resource = "account" /\ operation \in {"getBalance", "transfer"}
    \/ resource = "utility" /\ operation = "convertAddress"

\* the operation reads a pool id and tests it with validatePoolId
ChecksPoolId ==
    \/ resource = "pool" /\ operation = "getPool"
    \/ resource \in {"tranche", "loan"}

InvalidInput(item) ==
    \/ ChecksAddress /\ ~validateAddress(item.address).isValid
    \/ ChecksPoolId /\ ~validatePoolId(item.poolId).isValid

ValidationMessage ==
    IF ChecksPoolId THEN "Invalid pool ID"
    ELSE IF operation = "transfer" THEN "Invalid recipient"
    ELSE "Invalid address"

\* C21: an item with an invalid address (getBalance, transfer, convertAddress)
\* or an invalid pool id (getPool, tranche, loan) is rejected with 'Invalid
\* address', 'Invalid recipient' or 'Invalid pool ID', and no method of the
\* substrate or API client is called for it.
C21_InvalidInputRejectedBeforeAnyCall ==
    \A i \in 1..Len(attempted) :
        InvalidInput(items[i]) =>
            /\ attempted[i].threw
            /\ attempted[i].message = ValidationMessage
            /\ attempted[i].called = <<>>

\* the output entry of an item, given how its operation ended
EntryOf(r) ==
    IF r.threw THEN [json |-> [error |-> r.message]] ELSE [json |-> "result"]

\* C22: with continueOnFail an item that fails contributes exactly one output
\* {error: message} and the items after it are processed, so that execute
\* returns one entry per input item; without it the first failing item ends
\* the run, its error is thrown and no output is returned.
C22_PerItemFailureHandling ==
    /\ pc = "returned" =>
          /\ Len(attempted) = Len(items)
          /\ output = Some([i \in 1..Len(items) |-> EntryOf(attempted[i])])
          /\ ~continueOnFail => \A i \in 1..Len(items) : ~attempted[i].threw
    /\ (pc = "thrown" /\ attempted # <<>>) =>
          /\ ~continueOnFail
          /\ output = None
          /\ attempted[Len(attempted)].threw
          /\ pending = Some(attempted[Len(attempted)].message)
          /\ \A i \in 1..(Len(attempted) - 1) : ~attempted[i].threw
    /\ continueOnFail => Len(returnData) = Len(attempted)

\* execute has returned two entries, the first of them the error of item 1
C22_Witness ==
    /\ pc = "returned"
    /\ continueOnFail
    /\ Len(items) = 2
    /\ attempted[1].threw
    /\ ~attempted[2].threw
    /\ output[1][1] = [json |-> [error |-> "request failed"]]

-----------------------------------------------------------------------------
(* Claims about the subscription client's connection *)

\* C23: without a 'connected' in between the client starts at most
\* maxReconnectAttempts (10) reconnect attempts, the k-th after a delay of
\* 5000 * 2^(k-1) ms; it emits 'maxReconnectAttemptsReached' only with the
\* counter at 10, starting no attempt then; a 'connected' sets the counter to 0.
C23_BoundedBackoff ==
    /\ reconnectAttempts = Len(attemptDelays)
    /\ Len(attemptDelays) <= 10
    /\ \A k \in 1..Len(attemptDelays) : attemptDelays[k] = 5000 * Pow2(k - 1)
    /\ lastEmitted # None =>
          /\ lastEmitted[1].event = "maxReconnectAttemptsReached" =>
                lastEmitted[1].attempts = 10 /\ reconnectAttempts = 10
          /\ lastEmitted[1].event = "connected" => lastEmitted[1].attempts = 0

\* the tenth attempt was started, after 2560 seconds, and the next call of
\* handleReconnect gave up
C23_Witness ==
    /\ Len(attemptDelays) = 10
    /\ attemptDelays[10] = 2560000
    /\ lastEmitted = Some([event |-> "maxReconnectAttemptsReached", attempts |-> 10])

\* C27: once the caller's disconnect() has returned, and until the caller
\* calls connect() or subscribe() again, the client starts no reconnect
\* attempt and holds no connection and no subscription.
C27_StaysDisconnected ==
    (closed /\ caller = "idle") =>
        /\ ~isConnected
        /\ ~api
        /\ subscriptions = {}
        /\ waiting = 0
        /\ creating = 0

-----------------------------------------------------------------------------
(* Claims about the events *)

\* C25: when the trigger's category is not 'all' and its Event Types list is
\* not empty, every event the trigger emits has a type of that list.
C25_OnlySelectedEventTypes ==
    (/\ subscription # None
     /\ subscription[1].by = "trigger"
     /\ eventCategory # "all"
     /\ eventTypes # <<>>
     /\ delivered # None)
    => Contains(eventTypes, delivered[1].type)

\* C28: every event the callback of subscribeToCategory(c, ...) receives has
\* category c and a type of the event types listed for c.
C28_DeliveredEventsBelongToCategory ==
    (/\ subscription # None
     /\ eventCategory # "all"
     /\ delivered # None)
    => /\ delivered[1].category = eventCategory
       /\ Contains(getEventTypesForCategory(eventCategory), delivered[1].type)

-----------------------------------------------------------------------------
(* Claims about waitForEvent *)

\* C29: once the promise of a waitForEvent call has settled, the subscription
\* the call created is not among the client's active subscriptions, however
\* the subscribe completion, the event callback and the timeout interleave.
C29_NoSubscriptionLeftBehind ==
    \A k \in 1..Len(waitCalls) :
        waitCalls[k].promise # "pending" => k \notin subscriptions

-----------------------------------------------------------------------------
(* Claims about the API client *)

\* the limit in force: config.rateLimit, 60 by default
LimitInForce == IF rateLimit = None THEN 60 ELSE rateLimit[1]

\* C24: in any interval of 60 seconds the client sends at most rateLimit
\* (default 60) requests, whatever the sequence of request and graphqlQuery
\* calls, calls that wait in checkRateLimit at the same time included.
C24_RateLimitRespected ==
    \A i \in 1..Len(issued) :
        Cardinality({j \in 1..Len(issued) :
                        issued[i].at <= issued[j].at /\ issued[j].at < issued[i].at + 60000})
            <= LimitInForce

-----------------------------------------------------------------------------
(* Claims about solution construction *)

\* the solution that allocates the given amounts to the senior and the
\* junior tranche
SolutionOf(invest, redeem) ==
    LET allocations == [t \in 1..Len(SeniorToJunior) |->
                          [Allocation(t, invest[t], redeem[t])
                              EXCEPT !.trancheId = SeniorToJunior[t]]]
    IN  [investFulfillment |-> allocations, redeemFulfillment |-> allocations,
         isFeasible |-> TRUE, score |-> 1]

\* some allocation within the desired totals passes validateSolution
FeasibleAllocationExists ==
    \E i1 \in 0..desiredTotal(epochOrders, SeniorToJunior[1], "Invest"),
       i2 \in 0..desiredTotal(epochOrders, SeniorToJunior[2], "Invest"),
       r1 \in 0..desiredTotal(epochOrders, SeniorToJunior[1], "Redeem"),
       r2 \in 0..desiredTotal(epochOrders, SeniorToJunior[2], "Redeem") :
        validateSolution(SolutionOf(<<i1, i2>>, <<r1, r2>>), constraints, currentState).isValid

\* the shares of the orders of one tranche and direction, summed
RECURSIVE SumShares(_, _, _, _)
SumShares(book, received, trancheId, orderType) ==
    IF book = <<>> THEN 0
    ELSE (IF Head(book).trancheId = trancheId /\ Head(book).orderType = orderType
          THEN Head(received) ELSE 0)
         + SumShares(Tail(book), Tail(received), trancheId, orderType)

\* within a tranche and direction every order gets amount * served / total,
\* truncated, and the tranche is served no more than it asked for
ProRataWithinTranche(t, orderType, served) ==
    LET total == desiredTotal(epochOrders, SeniorToJunior[t], orderType)
    IN  /\ served <= total
        /\ \A i \in 1..Len(epochOrders) :
              (epochOrders[i].trancheId = SeniorToJunior[t]
                   /\ epochOrders[i].orderType = orderType)
              => /\ engineResult[1].shares[i] * total <= BigInt(epochOrders[i].amount) * served
                 /\ (engineResult[1].shares[i] + 1) * total > BigInt(epochOrders[i].amount) * served
        /\ SumShares(epochOrders, engineResult[1].shares, SeniorToJunior[t], orderType) <= served

C26_WitnessInfeasible ==
    /\ engineResult # None
    /\ ~solution.isFeasible
    /\ Contains(engineResult[1].violations, ExceedsMaxReserve)

====
